---- MODULE Spec2Model ----
(***************************************************************************)
(* Model of the intraday scheduling engine of stockadvisor:                *)
(* IntradayMonitor (components/intraday/intraday_monitor.py) with its      *)
(* per-region monitoring loops, circuit breaker, start/stop lifecycle and  *)
(* status query.                                                           *)
(*                                                                         *)
(* Python dicts are partial functions (DOMAIN = the keys present), so that *)
(* "no entry" and "entry holding None" stay distinct.  Times are minutes   *)
(* on the utcnow() clock; the clock is sampled every ClockStep minutes.    *)
(***************************************************************************)
EXTENDS Integers, Sequences, FiniteSets, TLC

\* ---------------------------------------------------------------- bounds
MaxThreads == 2      \* threads ever spawned in one behaviour
MaxTime == 30        \* last clock reading explored (minutes)
ClockStep == 30      \* minutes between two clock readings
Interval == 15       \* the configured monitoring_interval_minutes (15..240)
MaxRecs == 2         \* recommendations returned by one analysis
MaxCycles == 2       \* successful cycles counted per region (total_cycles_today)
JoinQuantum == 15    \* granularity (seconds) of the time a join consumes
MaxDay == 7          \* last day on which the market-hours detector is asked
MaxLoads == 2        \* get_market_holidays calls counted per region

\* ------------------------------------------------------ program constants
StopTimeout == 30        \* stop_monitoring: timeout = 30 (seconds)
PauseMinutes == 30       \* _handle_cycle_error: duration_minutes=30
FailureThreshold == 3    \* _handle_cycle_error: failure_count >= 3
MaxRetries == 3          \* AnalysisEngine.max_retries
RetryIntervalSeconds == 300   \* AnalysisEngine.retry_interval_seconds
MinInterval == 15        \* monitoring_interval_minutes: "between 15 and 240"
MaxInterval == 240

None == -1               \* Python None in an Optional[datetime] slot
NoReason == <<>>         \* Python None in the Optional[str] pause_reason slot
NoError == <<>>          \* Python None in an Optional[str] error_message slot

\* MarketRegion enum values (two of the three are explored)
Regions == {"china", "usa"}
\* strings a configuration may name; "mars" is not a MarketRegion value
RegionNames == Regions \cup {"mars"}

MarketStates == {"open", "closed", "error"}
TradeOutcomes == {"trade", "none", "raise"}
ErrText == "data collection failed"

Tids == 1..MaxThreads

VARIABLES
    config,               \* what config_manager.get_intraday_config() returns
    now,                  \* datetime.utcnow(), minutes
    market,               \* what is_market_open(region) answers right now
    global_stop,          \* self._global_stop.is_set()
    flag_set,             \* the threading.Event objects that are set
    monitoring_threads,   \* self._monitoring_threads : region -> thread
    stop_flags,           \* self._stop_flags : region -> Event
    monitoring_active,    \* self._monitoring_active
    is_paused,            \* self._is_paused
    pause_until,          \* self._pause_until
    pause_reason,         \* self._pause_reason
    consecutive_failures, \* self._consecutive_failures (defaultdict(int))
    last_cycle_time,      \* self._last_cycle_time
    next_cycle_time,      \* self._next_cycle_time
    total_cycles_today,   \* self._total_cycles_today (defaultdict(int))
    threads,              \* every Thread object: position and locals of its loop
    nthreads,             \* number of Thread objects created so far
    main,                 \* the caller of start_monitoring / stop_monitoring
    returned,             \* what the last step returned to the client, if it was a client call
    holiday_source,       \* what config_manager.get_market_holidays(region) does
    holidays_cache,       \* MarketHoursDetector._holidays_cache : region -> dates
    holiday_reads,        \* calls of config_manager.get_market_holidays so far, per region
    answer,               \* the last is_market_open call and what it returned
    engine                \* AnalysisEngine: its collaborators and the call of
                          \* execute_scheduled_analysis under way

statusMaps == <<monitoring_active, is_paused, pause_until, pause_reason,
                consecutive_failures, last_cycle_time, next_cycle_time,
                total_cycles_today>>
handleMaps == <<monitoring_threads, stop_flags>>
envVars == <<config, now, market>>
detectorVars == <<holiday_source, holidays_cache, holiday_reads, answer>>
vars == <<config, now, market, global_stop, flag_set, monitoring_threads,
          stop_flags, monitoring_active, is_paused, pause_until, pause_reason,
          consecutive_failures, last_cycle_time, next_cycle_time,
          total_cycles_today, threads, nthreads, main, returned,
          holiday_source, holidays_cache, holiday_reads, answer, engine>>

\* ------------------------------------------------------------ dict helpers
EmptyDict == [x \in {} |-> 0]

\* d.get(k, default): never inserts
Get(d, k, default) == IF k \in DOMAIN d THEN d[k] ELSE default

\* variant: the dict after d[k] on a defaultdict(int): a missing key is inserted
AfterIndex(d, k) ==
    [x \in (DOMAIN d) \cup {k} |-> IF x \in DOMAIN d THEN d[x] ELSE 0]

\* a defaultdict(int) after d.get(k, 0): no key is inserted
AfterGet(d, k) == d

\* d[k] = v
Put(d, k, v) == [x \in (DOMAIN d) \cup {k} |-> IF x = k THEN v ELSE d[x]]

\* d[k] on a defaultdict(int): the value, 0 when the key is missing
DefaultGet(d, k) == IF k \in DOMAIN d THEN d[k] ELSE 0


\* ------------------------------------------------- execute_analysis_cycle
\* AnalysisCycleResult, plus what the collaborators saw during the cycle:
\* analysis_calls = argument lists passed to execute_scheduled_analysis,
\* trade_calls = recommendations passed to execute_recommendation, in order,
\* raised = an exception left execute_analysis_cycle.
NoResult ==
    [valid |-> FALSE, success |-> FALSE, region |-> "", end_time |-> None,
     recommendations_count |-> 0, trades_executed |-> 0,
     error_message |-> NoError, raised |-> FALSE,
     analysis_calls |-> <<>>, trade_calls |-> <<>>]

\* the recommendations of an analysis result: rec 1 .. rec n
Recommendations(n) == [i \in 1..n |-> i]

\* variant: no try/except around the single call, the first raise ends the loop
RECURSIVE ExecuteTradesAbort(_, _, _, _)
ExecuteTradesAbort(recs, outs, i, st) ==
    IF i > Len(recs) THEN st
    ELSE LET called == [st EXCEPT !.calls = Append(@, recs[i])]
         IN  IF outs[i] = "raise"
             THEN [called EXCEPT !.raised = TRUE]
             ELSE ExecuteTradesAbort(recs, outs, i + 1,
                     IF outs[i] = "trade"
                     THEN [called EXCEPT !.executed = @ + 1]
                     ELSE called)

\* the for-loop over recommendations; st = [executed, calls, raised]
RECURSIVE ExecuteTrades(_, _, _, _)
ExecuteTrades(recs, outs, i, st) ==
    IF i > Len(recs) THEN st
    ELSE LET called == [st EXCEPT !.calls = Append(@, recs[i])]
         IN  IF outs[i] = "raise"
             THEN \* except Exception: log, go on with the next one
                  ExecuteTrades(recs, outs, i + 1, called)
             ELSE ExecuteTrades(recs, outs, i + 1,
                     IF outs[i] = "trade"
                     THEN [called EXCEPT !.executed = @ + 1]
                     ELSE called)

\* variant: analysis_result.success is not looked at
ExecuteAnalysisCycleUnchecked(region, analysis, outs, t_end) ==
    LET base == [NoResult EXCEPT !.valid = TRUE, !.region = region,
                                 !.end_time = t_end,
                                 !.analysis_calls = << <<region>> >>]
    IN  IF analysis.kind = "raise"
        THEN [base EXCEPT !.error_message = <<"Analysis cycle failed: ", ErrText>>]
        ELSE LET recs == Recommendations(analysis.n)
                 done == ExecuteTrades(recs, outs, 1,
                             [executed |-> 0, calls |-> <<>>, raised |-> FALSE])
             IN  [base EXCEPT !.success = TRUE,
                              !.recommendations_count = Len(recs),
                              !.trades_executed = done.executed,
                              !.trade_calls = done.calls]

\* variant: a reported failure is retried once before it is returned
ExecuteAnalysisCycleRetry(region, analysis, outs, t_end) ==
    LET base == [NoResult EXCEPT !.valid = TRUE, !.region = region,
                                 !.end_time = t_end,
                                 !.analysis_calls = << <<region>> >>]
    IN  IF analysis.kind = "raise"
        THEN [base EXCEPT !.error_message = <<"Analysis cycle failed: ", ErrText>>]
        ELSE IF analysis.kind = "fail"
        THEN [base EXCEPT !.error_message = <<"Analysis failed: ", ErrText>>,
                          !.analysis_calls = << <<region>>, <<region>> >>]
        ELSE LET recs == Recommendations(analysis.n)
                 done == ExecuteTrades(recs, outs, 1,
                             [executed |-> 0, calls |-> <<>>, raised |-> FALSE])
             IN  [base EXCEPT !.success = TRUE,
                              !.recommendations_count = Len(recs),
                              !.trades_executed = done.executed,
                              !.trade_calls = done.calls]

\* analysis = [kind : "ok" | "fail" | "raise", n : number of recommendations]
\* outs = what execute_recommendation does on each call, in call order
ExecuteAnalysisCycle(region, analysis, outs, t_end) ==
    LET base == [NoResult EXCEPT !.valid = TRUE, !.region = region,
                                 !.end_time = t_end,
                                 !.analysis_calls = << <<region>> >>]
    IN  IF analysis.kind = "raise"
        THEN [base EXCEPT !.error_message = <<"Analysis cycle failed: ", ErrText>>]
        ELSE IF analysis.kind = "fail"
        THEN [base EXCEPT !.error_message = <<"Analysis failed: ", ErrText>>]
        ELSE LET recs == Recommendations(analysis.n)
                 done == ExecuteTrades(recs, outs, 1,
                             [executed |-> 0, calls |-> <<>>, raised |-> FALSE])
             IN  IF done.raised
                 THEN [base EXCEPT !.error_message =
                                       <<"Analysis cycle failed: ", ErrText>>,
                                   !.trade_calls = done.calls]
                 ELSE [base EXCEPT !.success = TRUE,
                                   !.recommendations_count = Len(recs),
                                   !.trades_executed = done.executed,
                                   !.trade_calls = done.calls]

\* ---------------------------------------------------- _should_execute_cycle
\* variant: the decision looks at the schedule only
ShouldExecuteCycleScheduleOnly(region, m, t) ==
    LET nct == Get(next_cycle_time, region, None)
    IN  IF nct # None /\ t < nct THEN FALSE ELSE TRUE

\* m = what is_market_open(region) does in this call
ShouldExecuteCycle(region, m, t) ==
    IF m = "error" THEN FALSE
    ELSE IF m # "open" THEN FALSE
    ELSE LET nct == Get(next_cycle_time, region, None)
         IN  IF nct # None /\ t < nct THEN FALSE ELSE TRUE

\* ---------------------------------------------------- get_monitoring_status
NoStatus ==
    [valid |-> FALSE, region |-> "", is_active |-> FALSE, is_paused |-> FALSE,
     pause_reason |-> NoReason, pause_until |-> None, last_cycle_time |-> None,
     next_cycle_time |-> None, consecutive_failures |-> 0,
     total_cycles_today |-> 0]

MonitoringStatus(region) ==
    [valid |-> TRUE,
     region |-> region,
     is_active |-> Get(monitoring_active, region, FALSE),
     is_paused |-> Get(is_paused, region, FALSE),
     pause_reason |-> Get(pause_reason, region, NoReason),
     pause_until |-> Get(pause_until, region, None),
     last_cycle_time |-> Get(last_cycle_time, region, None),
     next_cycle_time |-> Get(next_cycle_time, region, None),
     consecutive_failures |-> Get(consecutive_failures, region, 0),
     total_cycles_today |-> Get(total_cycles_today, region, 0)]



\* what the collaborators did during a directly called cycle
NoCalls == [kind |-> "none", n |-> 0, outs |-> <<>>]

\* value handed back to the client by get_monitoring_status or by a direct
\* execute_analysis_cycle call (with what the collaborators did in that call)
NoReturn == [kind |-> "none", status |-> NoStatus, result |-> NoResult,
             collab |-> NoCalls]

\* ------------------------------------------------------ MarketHoursDetector
\* Instants are minutes on the UTC clock; minute 0 is 00:00 UTC of day 0, a
\* Monday.  A date is a day number, a time of day a minute number.
MinutesPerDay == 1440

\* time(h, m)
TimeOfDay(h, m) == h * 60 + m

\* MarketHoursDetector.MARKET_HOURS
MARKET_HOURS ==
    [china     |-> [open |-> TimeOfDay(9, 30), close |-> TimeOfDay(15, 0),
                    timezone |-> "Asia/Shanghai"],
     hong_kong |-> [open |-> TimeOfDay(9, 30), close |-> TimeOfDay(16, 0),
                    timezone |-> "Asia/Hong_Kong"],
     usa       |-> [open |-> TimeOfDay(9, 30), close |-> TimeOfDay(16, 0),
                    timezone |-> "America/New_York"]]

\* the regions with an entry in MARKET_HOURS
MarketHoursRegions == DOMAIN MARKET_HOURS

\* US daylight saving time starts on the Sunday of the explored days, at
\* 02:00 EST = 07:00 UTC
DstStart == 6 * MinutesPerDay + TimeOfDay(7, 0)

\* the UTC offset pytz applies at instant t, in minutes
UtcOffset(timezone, t) ==
    IF timezone = "America/New_York"
    THEN IF t >= DstStart THEN 0 - 4 * 60 ELSE 0 - 5 * 60
    ELSE 8 * 60

\* TimezoneConverter.utc_to_local: the local wall clock as a minute number
UtcToLocal(t, timezone) == t + UtcOffset(timezone, t)

\* local_time.date(), local_time.time(), local_time.weekday() (Monday = 0)
DateOf(local) == local \div MinutesPerDay
TimeOf(local) == local % MinutesPerDay
Weekday(local) == DateOf(local) % 7

\* is_weekend: Saturday (5) or Sunday (6)
IsWeekend(local) == Weekday(local) >= 5

\* a holiday string of the configuration: a date written as YYYY-MM-DD, or
\* written some other way
IsoDate(d) == [format |-> "%Y-%m-%d", day |-> d]
SlashDate(d) == [format |-> "%Y/%m/%d", day |-> d]

\* load_holidays, the parsing loop: strings that strptime('%Y-%m-%d') rejects
\* are skipped
RECURSIVE ParseHolidays(_)
ParseHolidays(strings) ==
    IF strings = <<>> THEN <<>>
    ELSE IF Head(strings).format = "%Y-%m-%d"
         THEN <<Head(strings).day>> \o ParseHolidays(Tail(strings))
         ELSE ParseHolidays(Tail(strings))

\* load_holidays: the parsed dates; [] when get_market_holidays raises
LoadHolidays(source) ==
    IF source.raises THEN <<>> ELSE ParseHolidays(source.dates)

\* check_date in holidays
InList(x, list) == \E i \in 1..Len(list) : list[i] = x

\* variant: the close time still counts as open
InTradingHoursInclusive(time, info) == info.open <= time /\ time <= info.close

\* open_time <= current_time < close_time
InTradingHours(time, info) == info.open <= time /\ time < info.close

\* variant: one holiday list for all regions
CacheKeyShared(region) == "all"

\* the key of _holidays_cache: the region
CacheKey(region) == region

\* variant: an empty cached list is loaded again
CachedHolidaysRetryEmpty(region) ==
    LET key == CacheKey(region)
    IN  IF key \in DOMAIN holidays_cache /\ holidays_cache[key] # <<>>
        THEN [cache |-> holidays_cache, reads |-> 0]
        ELSE [cache |-> Put(holidays_cache, key,
                            LoadHolidays(holiday_source[region])),
              reads |-> 1]

\* is_market_holiday: the holiday list is loaded on first use, then cached;
\* reads = calls of get_market_holidays made for it
CachedHolidays(region) ==
    LET key == CacheKey(region)
    IN  IF key \in DOMAIN holidays_cache
        THEN [cache |-> holidays_cache, reads |-> 0]
        ELSE [cache |-> Put(holidays_cache, key,
                            LoadHolidays(holiday_source[region])),
              reads |-> 1]

\* is_market_open(region, check_time): what it returns, the holiday cache it
\* leaves and the number of get_market_holidays calls it made; tzFails =
\* utc_to_local raises in this call.  Every exception is caught by the outer
\* handler and answered with False.
IsMarketOpen(region, t, tzFails) ==
    LET closed == [open |-> FALSE, raised |-> FALSE, cache |-> holidays_cache,
                   reads |-> 0]
    IN  IF region \notin DOMAIN MARKET_HOURS THEN closed
        ELSE IF tzFails THEN closed
        ELSE LET info == MARKET_HOURS[region]
                 local == UtcToLocal(t, info.timezone)
             IN  IF IsWeekend(local) THEN closed
                 ELSE LET key == CacheKey(region)
                          looked == CachedHolidays(region)
                          cache == looked.cache
                      IN  IF InList(DateOf(local), cache[key])
                          THEN [closed EXCEPT !.cache = cache,
                                              !.reads = looked.reads]
                          ELSE [open |-> InTradingHours(TimeOf(local), info),
                                raised |-> FALSE, cache |-> cache,
                                reads |-> looked.reads]

\* no is_market_open call made yet
NoAnswer == [valid |-> FALSE, region |-> "", t |-> 0, tz_failed |-> FALSE,
             open |-> FALSE, raised |-> FALSE]

\* what get_market_holidays may do for a region: return a list of strings
\* (none; a malformed one and the Tuesday; the Tuesday and the Wednesday),
\* or raise
SourceEmpty == [raises |-> FALSE, dates |-> <<>>]
SourceTuesday == [raises |-> FALSE, dates |-> <<SlashDate(2), IsoDate(1)>>]
SourceTwoDays == [raises |-> FALSE, dates |-> <<IsoDate(1), IsoDate(2)>>]
SourceRaises == [raises |-> TRUE, dates |-> <<>>]

\* the holiday source of the monitor behaviours: no holidays anywhere
NoHolidays == [r \in MarketHoursRegions |-> SourceEmpty]

\* holiday configurations of the three regions
HolidayConfigs ==
    { NoHolidays,
      [china |-> SourceEmpty, hong_kong |-> SourceEmpty, usa |-> SourceTuesday],
      [china |-> SourceRaises, hong_kong |-> SourceTuesday, usa |-> SourceEmpty],
      [china |-> SourceTwoDays, hong_kong |-> SourceRaises, usa |-> SourceRaises] }

\* ----------------------------------------------------------- AnalysisEngine
\* AnalysisResult; recommendations is the number of recommendations in the list
NoAnalysisResult ==
    [valid |-> FALSE, success |-> FALSE, recommendations |-> 0,
     error_message |-> NoError, retry_count |-> 0]

\* the regions argument of execute_scheduled_analysis: None or a list
NoRegions == <<"None">>
RegionArgs == { NoRegions, <<"china">>, <<"china", "usa">> }

\* what admin_notifier is: not given, a callable that returns, one that raises
Notifiers == {"none", "ok", "raises"}

\* an engine as constructed: admin_notifier, whether a market monitor was
\* given, and no call under way.  waited = the seconds of every time.sleep
\* of the call, attempts = passes through the try body, notifier_calls =
\* invocations of admin_notifier, raised = an exception left the call
EngineIdle(notifier, monitor) ==
    [admin_notifier |-> notifier, market_monitor |-> monitor, pc |-> "idle",
     regions |-> NoRegions, retry_count |-> 0, last_error |-> NoError,
     attempts |-> 0, waited |-> <<>>, notifier_calls |-> 0, raised |-> FALSE,
     result |-> NoAnalysisResult]

\* what the collaborators do in one attempt: the data is collected and
\* analysed into n recommendations, or collecting raises, or analysing raises
AttemptOutcomes ==
    { [kind |-> "ok", n |-> n] : n \in 0..MaxRecs }
    \cup { [kind |-> k, n |-> 0] : k \in {"collect_raises", "analyze_raises"} }

\* str(e) of the exception an attempt ends with
AttemptError(outcome) ==
    IF ~engine.market_monitor
    THEN <<"Market monitor not configured for scheduled analysis">>
    ELSE IF outcome.kind = "collect_raises" THEN <<"collect failed">>
    ELSE <<"analyze failed">>

\* lines 524-527: a call begins
ExecuteScheduledAnalysisCall(regions) ==
    /\ engine.pc \in {"idle", "done"}
    /\ engine' = [EngineIdle(engine.admin_notifier, engine.market_monitor)
                     EXCEPT !.pc = "attempt", !.regions = regions]
    /\ UNCHANGED <<envVars, global_stop, flag_set, handleMaps, statusMaps,
                   threads, nthreads, main, returned, detectorVars>>

\* variant: the count of failed attempts is not compared with max_retries,
\* a failed attempt is always followed by a wait and another attempt
AnalysisAttemptUnbounded(outcome) ==
    /\ engine.pc = "attempt"
    /\ engine.attempts < MaxRetries + 1
    /\ IF engine.market_monitor /\ outcome.kind = "ok"
       THEN engine' = [engine EXCEPT
                !.attempts = @ + 1,
                !.pc = "done",
                !.result = [valid |-> TRUE, success |-> TRUE,
                            recommendations |-> outcome.n,
                            error_message |-> NoError,
                            retry_count |-> engine.retry_count]]
       ELSE engine' = [engine EXCEPT
                !.attempts = @ + 1,
                !.retry_count = @ + 1,
                !.last_error = AttemptError(outcome),
                !.pc = "sleep"]
    /\ UNCHANGED <<envVars, global_stop, flag_set, handleMaps, statusMaps,
                   threads, nthreads, main, returned, detectorVars>>

\* lines 527-569: one pass through the try body.  Success returns the
\* result with the retry count so far; an exception counts one retry and
\* leads to the wait when attempts are left, to the exhaustion path when not
AnalysisAttempt(outcome) ==
    /\ engine.pc = "attempt"
    /\ IF engine.market_monitor /\ outcome.kind = "ok"
       THEN engine' = [engine EXCEPT
                !.attempts = @ + 1,
                !.pc = "done",
                !.result = [valid |-> TRUE, success |-> TRUE,
                            recommendations |-> outcome.n,
                            error_message |-> NoError,
                            retry_count |-> engine.retry_count]]
       ELSE engine' = [engine EXCEPT
                !.attempts = @ + 1,
                !.retry_count = @ + 1,
                !.last_error = AttemptError(outcome),
                !.pc = IF engine.retry_count + 1 < MaxRetries
                       THEN "sleep" ELSE "notify"]
    /\ UNCHANGED <<envVars, global_stop, flag_set, handleMaps, statusMaps,
                   threads, nthreads, main, returned, detectorVars>>

\* line 573: time.sleep(self.retry_interval_seconds) returns
AnalysisSleep ==
    /\ engine.pc = "sleep"
    /\ engine' = [engine EXCEPT !.waited = Append(@, RetryIntervalSeconds),
                                !.pc = "attempt"]
    /\ UNCHANGED <<envVars, global_stop, flag_set, handleMaps, statusMaps,
                   threads, nthreads, main, returned, detectorVars>>

\* variant: no try/except around the notifier, its exception leaves the call
NotifyAdministratorsUnguarded ==
    /\ engine.pc = "notify"
    /\ engine' = [engine EXCEPT
          !.notifier_calls =
              IF engine.admin_notifier = "none" THEN @ ELSE @ + 1,
          !.raised = (engine.admin_notifier = "raises"),
          !.result =
              IF engine.admin_notifier = "raises" THEN NoAnalysisResult
              ELSE [valid |-> TRUE, success |-> FALSE, recommendations |-> 0,
                    error_message |->
                        <<"Analysis failed after 3 retry attempts. Last error: ">>
                            \o engine.last_error,
                    retry_count |-> engine.retry_count],
          !.pc = "done"]
    /\ UNCHANGED <<envVars, global_stop, flag_set, handleMaps, statusMaps,
                   threads, nthreads, main, returned, detectorVars>>

\* lines 575-610: all retries exhausted: _notify_administrators calls the
\* notifier when there is one and swallows what it raises; the failure
\* result is returned
NotifyAdministrators ==
    /\ engine.pc = "notify"
    /\ engine' = [engine EXCEPT
          !.notifier_calls =
              IF engine.admin_notifier = "none" THEN @ ELSE @ + 1,
          !.result =
              [valid |-> TRUE, success |-> FALSE, recommendations |-> 0,
               error_message |->
                   <<"Analysis failed after 3 retry attempts. Last error: ">>
                       \o engine.last_error,
               retry_count |-> engine.retry_count],
          !.pc = "done"]
    /\ UNCHANGED <<envVars, global_stop, flag_set, handleMaps, statusMaps,
                   threads, nthreads, main, returned, detectorVars>>

\* ------------------------------------------------------------------ state
\* a Thread object and the locals of its _monitoring_loop; allowing_logged =
\* the loop has logged "Allowing in-progress cycle to complete";
\* opened_logged = the market check of the tick under way has logged
\* "Market opened" (kept until the cycle decision of the tick);
\* check_failed_logged = the market check of the tick under way has logged
\* "Market status check failed" (kept until the cycle decision of the tick);
\* open_since = history of the loop's market queries: the end time of the
\* loop's last cycle as long as every query since then has answered open,
\* None otherwise
NoThread ==
    [region |-> "", pc |-> "unborn", stop_flag |-> 0, was_market_open |-> FALSE,
     cycle_in_progress |-> FALSE, allowing_logged |-> FALSE,
     opened_logged |-> FALSE, check_failed_logged |-> FALSE,
     open_since |-> None,
     pause_until_local |-> None,
     cycles_since_signal |-> 0,
     interval |-> 0, result |-> NoResult]

\* a thread that has returned from _monitoring_loop (or died in it)
DeadThread == [NoThread EXCEPT !.pc = "dead"]

MainIdle == [pc |-> "idle", order |-> <<>>, idx |-> 0, elapsed |-> 0,
             waiting |-> FALSE]

\* thread.is_alive()
IsAlive(t) == threads[t].pc \notin {"unborn", "dead"}

\* a configuration as get_intraday_config() returns it
Config(enabled, names) ==
    [enabled |-> enabled, monitored_regions |-> names,
     monitoring_interval_minutes |-> Interval]

\* configurations with at most one valid region: one valid and one unknown
\* name, no name at all, monitoring disabled
SoloConfigs ==
    { Config(TRUE, <<"mars", "usa">>), Config(TRUE, <<>>),
      Config(FALSE, <<"china", "usa">>) }

\* configurations with an error in them: an unknown name beside a valid one,
\* an unknown name alone, no name, an interval below the allowed range
ErrorConfigs ==
    { Config(TRUE, <<"mars", "usa">>), Config(TRUE, <<"mars">>),
      Config(TRUE, <<>>),
      [Config(TRUE, <<"usa">>) EXCEPT
          !.monitoring_interval_minutes = MinInterval - 1] }

\* the configuration of the test suite: two regions
PairConfig == Config(TRUE, <<"china", "usa">>)

\* IntradayMonitor.__init__
InitMonitor ==
    /\ now = 0
    /\ global_stop = FALSE
    /\ flag_set = {}
    /\ monitoring_threads = EmptyDict
    /\ stop_flags = EmptyDict
    /\ monitoring_active = EmptyDict
    /\ is_paused = EmptyDict
    /\ pause_until = EmptyDict
    /\ pause_reason = EmptyDict
    /\ consecutive_failures = EmptyDict
    /\ last_cycle_time = EmptyDict
    /\ next_cycle_time = EmptyDict
    /\ total_cycles_today = EmptyDict
    /\ threads = [t \in Tids |-> NoThread]
    /\ nthreads = 0
    /\ main = MainIdle
    /\ returned = NoReturn
    /\ holidays_cache = EmptyDict
    /\ holiday_reads = [r \in MarketHoursRegions |-> 0]
    /\ answer = NoAnswer

\* one monitored region, markets that open and close while it is monitored
Init ==
    /\ config \in SoloConfigs
    /\ market = [r \in Regions |-> "closed"]
    /\ holiday_source = NoHolidays
    /\ engine = EngineIdle("none", TRUE)
    /\ InitMonitor

\* two monitored regions, each market in one state for the whole behaviour
InitPair ==
    /\ config = PairConfig
    /\ market \in [Regions -> MarketStates]
    /\ holiday_source = NoHolidays
    /\ engine = EngineIdle("none", TRUE)
    /\ InitMonitor

\* ------------------------------------------------------- start_monitoring
\* the valid MarketRegion values among the configured names, in order
RECURSIVE ValidRegions(_)
\* variant: the names are taken as they are, unknown ones included
ValidRegionsUnchecked(names) == names

ValidRegions(names) ==
    IF names = <<>> THEN <<>>
    ELSE IF Head(names) \in Regions
         THEN <<Head(names)>> \o ValidRegions(Tail(names))
         ELSE ValidRegions(Tail(names))

\* variant: no is_alive() test, every configured region is started afresh
\* (as long as Thread objects are left)
RECURSIVE StartRegionsAlways(_, _)
StartRegionsAlways(regs, st) ==
    IF regs = <<>> \/ st.nthreads >= MaxThreads THEN st
    ELSE LET r == Head(regs)
             t == st.nthreads + 1
         IN  StartRegionsAlways(Tail(regs),
               [st EXCEPT
                  !.stop_flags = Put(@, r, t),
                  !.monitoring_active = Put(@, r, TRUE),
                  !.is_paused = Put(@, r, FALSE),
                  !.pause_until = Put(@, r, None),
                  !.pause_reason = Put(@, r, NoReason),
                  !.monitoring_threads = Put(@, r, t),
                  !.threads = [u \in Tids |->
                      IF u = t
                      THEN [NoThread EXCEPT !.region = r, !.pc = "spawned"]
                      ELSE @[u]],
                  !.nthreads = t])

\* the for-loop over regions; st carries the maps being written
RECURSIVE StartRegions(_, _)
StartRegions(regs, st) ==
    IF regs = <<>> THEN st
    ELSE LET r == Head(regs)
             running == /\ r \in DOMAIN st.monitoring_threads
                        /\ st.threads[st.monitoring_threads[r]].pc
                               \notin {"unborn", "dead"}
         IN  IF running
             THEN StartRegions(Tail(regs), st)
             ELSE LET t == st.nthreads + 1
                  IN  StartRegions(Tail(regs),
                        [st EXCEPT
                           !.stop_flags = Put(@, r, t),
                           !.monitoring_active = Put(@, r, TRUE),
                           !.is_paused = Put(@, r, FALSE),
                           !.pause_until = Put(@, r, None),
                           !.pause_reason = Put(@, r, NoReason),
                           !.monitoring_threads = Put(@, r, t),
                           !.threads = [@ EXCEPT ![t] =
                               [NoThread EXCEPT !.region = r, !.pc = "spawned"]],
                           !.nthreads = t])

StartState ==
    [stop_flags |-> stop_flags, monitoring_active |-> monitoring_active,
     is_paused |-> is_paused, pause_until |-> pause_until,
     pause_reason |-> pause_reason, monitoring_threads |-> monitoring_threads,
     threads |-> threads, nthreads |-> nthreads]

\* variant: the enabled switch of the configuration is not looked at
RegionsToStartIgnoreEnabled(cfgRaises) ==
    IF cfgRaises THEN <<>>
    ELSE ValidRegions(config.monitored_regions)

\* the regions start_monitoring iterates over ([] on every early return)
RegionsToStart(cfgRaises) ==
    IF cfgRaises \/ ~config.enabled THEN <<>>
    ELSE ValidRegions(config.monitored_regions)

\* number of Thread objects the call is going to create
SpawnCount(regs) ==
    Cardinality({ r \in { regs[i] : i \in 1..Len(regs) } :
                    ~(r \in DOMAIN monitoring_threads
                      /\ IsAlive(monitoring_threads[r])) })

\* variant: a start wipes the cycle counters
StartMonitoringResetCycles(cfgRaises) ==
    /\ main.pc = "idle"
    /\ LET regs == RegionsToStart(cfgRaises)
           st == StartRegions(regs, StartState)
       IN  /\ nthreads + SpawnCount(regs) <= MaxThreads
           /\ stop_flags' = st.stop_flags
           /\ monitoring_active' = st.monitoring_active
           /\ is_paused' = st.is_paused
           /\ pause_until' = st.pause_until
           /\ pause_reason' = st.pause_reason
           /\ monitoring_threads' = st.monitoring_threads
           /\ threads' = st.threads
           /\ nthreads' = st.nthreads
    /\ returned' = NoReturn
    /\ total_cycles_today' = EmptyDict
    /\ UNCHANGED <<envVars, global_stop, flag_set, consecutive_failures,
                   last_cycle_time, next_cycle_time, main>>
    /\ UNCHANGED <<detectorVars, engine>>

\* start_monitoring()
StartMonitoring(cfgRaises) ==
    /\ main.pc = "idle"
    /\ LET regs == RegionsToStart(cfgRaises)
           st == StartRegions(regs, StartState)
       IN  /\ nthreads + SpawnCount(regs) <= MaxThreads
           /\ stop_flags' = st.stop_flags
           /\ monitoring_active' = st.monitoring_active
           /\ is_paused' = st.is_paused
           /\ pause_until' = st.pause_until
           /\ pause_reason' = st.pause_reason
           /\ monitoring_threads' = st.monitoring_threads
           /\ threads' = st.threads
           /\ nthreads' = st.nthreads
    /\ returned' = NoReturn
    /\ UNCHANGED <<envVars, global_stop, flag_set, consecutive_failures,
                   last_cycle_time, next_cycle_time, total_cycles_today, main>>
    /\ UNCHANGED <<detectorVars, engine>>


\* -------------------------------------------------------- stop_monitoring
\* iteration order of self._monitoring_threads.items(): insertion order,
\* which is the order of the valid configured names
RECURSIVE DictOrder(_, _)
DictOrder(names, d) ==
    IF names = <<>> THEN <<>>
    ELSE LET k == Head(names)
             rest == DictOrder(Tail(names), [x \in (DOMAIN d) \ {k} |-> d[x]])
         IN  IF k \in DOMAIN d THEN <<k>> \o rest ELSE rest

\* remaining_time = timeout - (time.time() - start_time)
RemainingTime(elapsed) == StopTimeout - elapsed

\* variant: the stop-flag map is not cleared on return
StopAdvanceKeepFlags(order, idx, elapsed) ==
    IF idx <= Len(order)
    THEN /\ main' = [pc |-> "join", order |-> order, idx |-> idx,
                     elapsed |-> elapsed, waiting |-> FALSE]
         /\ UNCHANGED handleMaps
    ELSE /\ main' = MainIdle
         /\ monitoring_threads' = EmptyDict
         /\ UNCHANGED stop_flags

\* the for-loop of lines 153-163 has handled region idx - 1 after `elapsed`
\* seconds: go on with the next region, or (lines 165-169) clear the thread
\* map and the stop-flag map and return
StopAdvance(order, idx, elapsed) ==
    IF idx <= Len(order)
    THEN /\ main' = [pc |-> "join", order |-> order, idx |-> idx,
                     elapsed |-> elapsed, waiting |-> FALSE]
         /\ UNCHANGED handleMaps
    ELSE /\ main' = MainIdle
         /\ monitoring_threads' = EmptyDict
         /\ stop_flags' = EmptyDict

\* variant: only the global flag is set, the regions are not gone through
StopSignalGlobalOnly ==
    /\ main.pc = "idle"
    /\ global_stop' = TRUE
    /\ StopAdvance(DictOrder(config.monitored_regions, monitoring_threads), 1, 0)
    /\ returned' = NoReturn
    /\ UNCHANGED <<envVars, flag_set, statusMaps, threads, nthreads>>
    /\ UNCHANGED <<detectorVars, engine>>

\* lines 139-151: set the global flag, set every region's flag, mark every
\* region inactive, take start_time
StopSignal ==
    /\ main.pc = "idle"
    /\ global_stop' = TRUE
    /\ flag_set' = flag_set \cup { stop_flags[r] : r \in DOMAIN stop_flags }
    /\ monitoring_active' =
           [r \in (DOMAIN monitoring_active) \cup (DOMAIN stop_flags) |->
               IF r \in DOMAIN stop_flags THEN FALSE ELSE monitoring_active[r]]
    /\ StopAdvance(DictOrder(config.monitored_regions, monitoring_threads), 1, 0)
    /\ returned' = NoReturn
    /\ UNCHANGED <<envVars, is_paused, pause_until, pause_reason,
                   consecutive_failures, last_cycle_time, next_cycle_time,
                   total_cycles_today, threads, nthreads>>
    /\ UNCHANGED <<detectorVars, engine>>

\* lines 153-157: the region at hand; join its thread when it is alive and
\* budget is left, else go on
StopNextRegion ==
    /\ main.pc = "join"
    /\ ~main.waiting
    /\ LET t == monitoring_threads[main.order[main.idx]]
       IN  IF IsAlive(t) /\ RemainingTime(main.elapsed) > 0
           THEN /\ main' = [main EXCEPT !.waiting = TRUE]
                /\ UNCHANGED handleMaps
           ELSE StopAdvance(main.order, main.idx + 1, main.elapsed)
    /\ returned' = NoReturn
    /\ UNCHANGED <<envVars, global_stop, flag_set, statusMaps, threads, nthreads>>
    /\ UNCHANGED <<detectorVars, engine>>

\* variant: join() without a timeout returns only when the thread has ended
JoinTimesUntilEnd(t) ==
    IF IsAlive(t) THEN {}
    ELSE { e \in main.elapsed..StopTimeout :
             e = StopTimeout \/ (e - main.elapsed) % JoinQuantum = 0 }

\* the seconds on the stop clock when a join returns: any reading up to the
\* timeout when the thread has ended, the timeout itself when it has not
JoinTimes(t) ==
    IF IsAlive(t) THEN {StopTimeout}
    ELSE { e \in main.elapsed..StopTimeout :
             e = StopTimeout \/ (e - main.elapsed) % JoinQuantum = 0 }

\* lines 157-163: thread.join(timeout=remaining_time) returns
StopJoinReturn ==
    /\ main.pc = "join"
    /\ main.waiting
    /\ \E e \in JoinTimes(monitoring_threads[main.order[main.idx]]) :
          StopAdvance(main.order, main.idx + 1, e)
    /\ returned' = NoReturn
    /\ UNCHANGED <<envVars, global_stop, flag_set, statusMaps, threads, nthreads>>
    /\ UNCHANGED <<detectorVars, engine>>

\* -------------------------------------------------------- _monitoring_loop
\* lines 184-195: fetch the region's stop flag and the interval; both reads
\* are outside the try, a failing read ends the thread
LoopEnter(t, cfgRaises) ==
    /\ threads[t].pc = "spawned"
    /\ LET r == threads[t].region
       IN  threads' = [threads EXCEPT ![t] =
               IF r \notin DOMAIN stop_flags \/ cfgRaises
               THEN DeadThread
               ELSE [@ EXCEPT !.pc = "head",
                              !.stop_flag = stop_flags[r],
                              !.interval = config.monitoring_interval_minutes]]
    /\ returned' = NoReturn
    /\ UNCHANGED <<envVars, global_stop, flag_set, handleMaps, statusMaps,
                   nthreads, main>>
    /\ UNCHANGED <<detectorVars, engine>>

\* variant: a pause counts as run out as soon as pause_until is set
PauseExpiredEarly(r) ==
    Get(pause_until, r, None) # None

\* the pause has run out: pause_until is set and utcnow() >= pause_until
PauseExpired(r) ==
    /\ Get(pause_until, r, None) # None
    /\ now >= Get(pause_until, r, None)

\* variant: a resume leaves the failure count as it is
LoopHeadKeepCount(t) ==
    /\ threads[t].pc = "head"
    /\ LET r == threads[t].region
       IN  IF threads[t].stop_flag \in flag_set \/ global_stop
           THEN /\ threads' = [threads EXCEPT ![t] = DeadThread]
                /\ UNCHANGED <<is_paused, pause_until, pause_reason,
                               consecutive_failures>>
           ELSE IF Get(is_paused, r, FALSE)
           THEN IF PauseExpired(r)
                THEN /\ is_paused' = Put(is_paused, r, FALSE)
                     /\ pause_until' = Put(pause_until, r, None)
                     /\ pause_reason' = Put(pause_reason, r, NoReason)
                     /\ UNCHANGED consecutive_failures
                     /\ threads' = [threads EXCEPT ![t].pc = "market_check"]
                ELSE /\ threads' = [threads EXCEPT ![t].pc = "head"]
                     /\ UNCHANGED <<is_paused, pause_until, pause_reason,
                                    consecutive_failures>>
           ELSE /\ threads' = [threads EXCEPT ![t].pc = "market_check"]
                /\ UNCHANGED <<is_paused, pause_until, pause_reason,
                               consecutive_failures>>
    /\ returned' = NoReturn
    /\ UNCHANGED <<envVars, global_stop, flag_set, handleMaps,
                   monitoring_active, last_cycle_time, next_cycle_time,
                   total_cycles_today, nthreads, main>>
    /\ UNCHANGED <<detectorVars, engine>>

\* variant: the while test looks at the region's own Event only
LoopHeadOwnFlagOnly(t) ==
    /\ threads[t].pc = "head"
    /\ LET r == threads[t].region
       IN  IF threads[t].stop_flag \in flag_set
           THEN /\ threads' = [threads EXCEPT ![t] = DeadThread]
                /\ UNCHANGED <<is_paused, pause_until, pause_reason,
                               consecutive_failures>>
           ELSE IF Get(is_paused, r, FALSE)
           THEN IF PauseExpired(r)
                THEN /\ is_paused' = Put(is_paused, r, FALSE)
                     /\ pause_until' = Put(pause_until, r, None)
                     /\ pause_reason' = Put(pause_reason, r, NoReason)
                     /\ consecutive_failures' = Put(consecutive_failures, r, 0)
                     /\ threads' = [threads EXCEPT ![t].pc = "market_check"]
                ELSE /\ threads' = [threads EXCEPT ![t].pc = "head"]
                     /\ UNCHANGED <<is_paused, pause_until, pause_reason,
                                    consecutive_failures>>
           ELSE /\ threads' = [threads EXCEPT ![t].pc = "market_check"]
                /\ UNCHANGED <<is_paused, pause_until, pause_reason,
                               consecutive_failures>>
    /\ returned' = NoReturn
    /\ UNCHANGED <<envVars, global_stop, flag_set, handleMaps,
                   monitoring_active, last_cycle_time, next_cycle_time,
                   total_cycles_today, nthreads, main>>
    /\ UNCHANGED <<detectorVars, engine>>

\* lines 197-212: the while condition, reached after every sleep, then the
\* pause check: paused and expired -> resume and go on; paused and not
\* expired -> sleep and continue; not paused -> go on
LoopHead(t) ==
    /\ threads[t].pc = "head"
    /\ LET r == threads[t].region
       IN  IF threads[t].stop_flag \in flag_set \/ global_stop
           THEN /\ threads' = [threads EXCEPT ![t] = DeadThread]
                /\ UNCHANGED <<is_paused, pause_until, pause_reason,
                               consecutive_failures>>
           ELSE IF Get(is_paused, r, FALSE)
           THEN IF PauseExpired(r)
                THEN /\ is_paused' = Put(is_paused, r, FALSE)
                     /\ pause_until' = Put(pause_until, r, None)
                     /\ pause_reason' = Put(pause_reason, r, NoReason)
                     /\ consecutive_failures' = Put(consecutive_failures, r, 0)
                     /\ threads' = [threads EXCEPT ![t].pc = "market_check"]
                ELSE /\ threads' = [threads EXCEPT ![t].pc = "head"]
                     /\ UNCHANGED <<is_paused, pause_until, pause_reason,
                                    consecutive_failures>>
           ELSE /\ threads' = [threads EXCEPT ![t].pc = "market_check"]
                /\ UNCHANGED <<is_paused, pause_until, pause_reason,
                               consecutive_failures>>
    /\ returned' = NoReturn
    /\ UNCHANGED <<envVars, global_stop, flag_set, handleMaps,
                   monitoring_active, last_cycle_time, next_cycle_time,
                   total_cycles_today, nthreads, main>>
    /\ UNCHANGED <<detectorVars, engine>>

\* variant: the open edge does not touch next_cycle_time
LoopMarketCheckKeepSchedule(t) ==
    /\ threads[t].pc = "market_check"
    /\ LET r == threads[t].region
           is_market_open == (market[r] = "open")
       IN  /\ UNCHANGED next_cycle_time
           /\ threads' = [threads EXCEPT
                 ![t].pc = "should",
                 ![t].allowing_logged =
                     \/ @
                     \/ /\ ~is_market_open
                        /\ threads[t].was_market_open
                        /\ threads[t].cycle_in_progress,
                 ![t].opened_logged =
                     is_market_open /\ ~threads[t].was_market_open,
                 ![t].check_failed_logged = (market[r] = "error"),
                 ![t].open_since = IF is_market_open THEN @ ELSE None,
                 ![t].was_market_open = is_market_open]
    /\ returned' = NoReturn
    /\ UNCHANGED <<envVars, global_stop, flag_set, handleMaps,
                   monitoring_active, is_paused, pause_until, pause_reason,
                   consecutive_failures, last_cycle_time, total_cycles_today,
                   nthreads, main>>
    /\ UNCHANGED <<detectorVars, engine>>

\* lines 214-240: first market query of the tick (a raise counts as closed),
\* open/close edge detection, was_market_open update
LoopMarketCheck(t) ==
    /\ threads[t].pc = "market_check"
    /\ LET r == threads[t].region
           is_market_open == (market[r] = "open")
       IN  /\ next_cycle_time' =
                 IF is_market_open /\ ~threads[t].was_market_open
                 THEN Put(next_cycle_time, r, None)
                 ELSE next_cycle_time
           /\ threads' = [threads EXCEPT
                 ![t].pc = "should",
                 ![t].allowing_logged =
                     \/ @
                     \/ /\ ~is_market_open
                        /\ threads[t].was_market_open
                        /\ threads[t].cycle_in_progress,
                 ![t].opened_logged =
                     is_market_open /\ ~threads[t].was_market_open,
                 ![t].check_failed_logged = (market[r] = "error"),
                 ![t].open_since = IF is_market_open THEN @ ELSE None,
                 ![t].was_market_open = is_market_open]
    /\ returned' = NoReturn
    /\ UNCHANGED <<envVars, global_stop, flag_set, handleMaps,
                   monitoring_active, is_paused, pause_until, pause_reason,
                   consecutive_failures, last_cycle_time, total_cycles_today,
                   nthreads, main>>
    /\ UNCHANGED <<detectorVars, engine>>

\* line 243-245: the cycle decision; a cycle is started when it says yes
LoopShouldExecute(t) ==
    /\ threads[t].pc = "should"
    /\ LET r == threads[t].region
           go == ShouldExecuteCycle(r, market[r], now)
           signalled == global_stop \/ threads[t].stop_flag \in flag_set
       IN  /\ go => DefaultGet(total_cycles_today, r) < MaxCycles
           /\ (go /\ signalled) => threads[t].cycles_since_signal < MaxCycles
           /\ threads' = [threads EXCEPT
                 ![t].pc = IF go THEN "cycle" ELSE "head",
                 ![t].cycles_since_signal =
                     IF go /\ signalled THEN @ + 1 ELSE @,
                 ![t].opened_logged = FALSE,
                 ![t].check_failed_logged = FALSE,
                 ![t].open_since = IF market[r] = "open" THEN @ ELSE None,
                 ![t].cycle_in_progress = go]
    /\ returned' = NoReturn
    /\ UNCHANGED <<envVars, global_stop, flag_set, handleMaps, statusMaps,
                   nthreads, main>>
    /\ UNCHANGED <<detectorVars, engine>>

\* what the analysis collaborator may do in one call
\* success or reported failure with n recommendations attached, or a raise
AnalysisOutcomes ==
    { [kind |-> k, n |-> n] : k \in {"ok", "fail"}, n \in 0..MaxRecs }
    \cup { [kind |-> "raise", n |-> 0] }

\* what the trade executor may do on the n calls of one cycle
TradeOutcomeSeqs(n) == [1..n -> TradeOutcomes]

\* variant: a cycle is abandoned when the stop signal is seen during it
LoopCycleInterruptible(t, analysis, outs) ==
    /\ threads[t].pc = "cycle"
    /\ threads' =
          IF threads[t].stop_flag \in flag_set \/ global_stop
          THEN [threads EXCEPT ![t].pc = "head", ![t].cycle_in_progress = FALSE]
          ELSE [threads EXCEPT
                  ![t].pc = "apply",
                  ![t].result = ExecuteAnalysisCycle(threads[t].region, analysis,
                                                     outs, now)]
    /\ returned' = NoReturn
    /\ UNCHANGED <<envVars, global_stop, flag_set, handleMaps, statusMaps,
                   nthreads, main>>
    /\ UNCHANGED <<detectorVars, engine>>

\* line 248: result = self.execute_analysis_cycle(region)
LoopCycle(t, analysis, outs) ==
    /\ threads[t].pc = "cycle"
    /\ threads' = [threads EXCEPT
           ![t].pc = "apply",
           ![t].result = ExecuteAnalysisCycle(threads[t].region, analysis, outs, now)]
    /\ returned' = NoReturn
    /\ UNCHANGED <<envVars, global_stop, flag_set, handleMaps, statusMaps,
                   nthreads, main>>
    /\ UNCHANGED <<detectorVars, engine>>

\* variant: the breaker trips one failure late
HandleCycleErrorLate(r, error) ==
    LET failure_count == DefaultGet(consecutive_failures, r) + 1
    IN  /\ consecutive_failures' = Put(consecutive_failures, r, failure_count)
        /\ IF failure_count > FailureThreshold
           THEN /\ is_paused' = Put(is_paused, r, TRUE)
                /\ pause_until' = Put(pause_until, r, now + PauseMinutes)
                /\ pause_reason' = Put(pause_reason, r,
                                       <<"3 consecutive failures: ">> \o error)
           ELSE UNCHANGED <<is_paused, pause_until, pause_reason>>

\* variant: tripping the breaker restarts the count
HandleCycleErrorRestart(r, error) ==
    LET failure_count == DefaultGet(consecutive_failures, r) + 1
    IN  IF failure_count >= FailureThreshold
        THEN /\ consecutive_failures' = Put(consecutive_failures, r, 0)
             /\ is_paused' = Put(is_paused, r, TRUE)
             /\ pause_until' = Put(pause_until, r, now + PauseMinutes)
             /\ pause_reason' = Put(pause_reason, r,
                                    <<"3 consecutive failures: ">> \o error)
        ELSE /\ consecutive_failures' = Put(consecutive_failures, r, failure_count)
             /\ UNCHANGED <<is_paused, pause_until, pause_reason>>

\* variant: one breaker for the whole monitor, tripping pauses every region
HandleCycleErrorGlobal(r, error) ==
    LET failure_count == DefaultGet(consecutive_failures, r) + 1
    IN  /\ consecutive_failures' = Put(consecutive_failures, r, failure_count)
        /\ IF failure_count >= FailureThreshold
           THEN /\ is_paused' = [x \in (DOMAIN is_paused) \cup {r} |-> TRUE]
                /\ pause_until' = [x \in (DOMAIN pause_until) \cup {r} |->
                                      now + PauseMinutes]
                /\ pause_reason' = [x \in (DOMAIN pause_reason) \cup {r} |->
                                       <<"3 consecutive failures: ">> \o error]
           ELSE UNCHANGED <<is_paused, pause_until, pause_reason>>

\* _handle_cycle_error / _pause_monitoring: count the failure, trip the
\* breaker when the count has reached the threshold
HandleCycleError(r, error) ==
    LET failure_count == DefaultGet(consecutive_failures, r) + 1
    IN  /\ consecutive_failures' = Put(consecutive_failures, r, failure_count)
        /\ IF failure_count >= FailureThreshold
           THEN /\ is_paused' = Put(is_paused, r, TRUE)
                /\ pause_until' = Put(pause_until, r, now + PauseMinutes)
                /\ pause_reason' = Put(pause_reason, r,
                                       <<"3 consecutive failures: ">> \o error)
           ELSE UNCHANGED <<is_paused, pause_until, pause_reason>>

\* result.error_message or "Unknown error"
ErrorOf(result) ==
    IF result.error_message = NoError THEN <<"Unknown error">>
    ELSE result.error_message

\* variant: the next cycle is scheduled without asking the market again
NextCycleAfterUnasked(r, interval) == now + interval

\* lines 261-282: the market query after the cycle (a raise counts as
\* closed): the next cycle time when still open, None when not
NextCycleAfter(r, interval) ==
    IF market[r] = "open" THEN now + interval ELSE None

\* variant: last_cycle_time is stamped after a failed cycle as well
LoopApplyStampAlways(t) ==
    /\ threads[t].pc = "apply"
    /\ LET r == threads[t].region
           result == threads[t].result
       IN  IF result.raised
           THEN /\ HandleCycleError(r, <<ErrText>>)
                /\ threads' = [threads EXCEPT ![t].pc = "head",
                                              ![t].cycle_in_progress = FALSE,
                                              ![t].open_since = None,
                                              ![t].result = NoResult]
                /\ UNCHANGED <<last_cycle_time, total_cycles_today,
                               next_cycle_time>>
           ELSE /\ IF result.success
                   THEN /\ consecutive_failures' = Put(consecutive_failures, r, 0)
                        /\ last_cycle_time' = Put(last_cycle_time, r, result.end_time)
                        /\ total_cycles_today' =
                               Put(total_cycles_today, r,
                                   DefaultGet(total_cycles_today, r) + 1)
                        /\ UNCHANGED <<is_paused, pause_until, pause_reason>>
                   ELSE /\ HandleCycleError(r, ErrorOf(result))
                        /\ last_cycle_time' = Put(last_cycle_time, r, result.end_time)
                        /\ UNCHANGED total_cycles_today
                /\ next_cycle_time' =
                       Put(next_cycle_time, r, NextCycleAfter(r, threads[t].interval))
                /\ threads' = [threads EXCEPT
                       ![t].pc = "head",
                       ![t].cycle_in_progress = FALSE,
                       ![t].open_since =
                           IF market[r] = "open" THEN result.end_time ELSE None,
                       ![t].result = NoResult,
                       ![t].was_market_open =
                           IF market[r] = "open" THEN @ ELSE FALSE]
    /\ returned' = NoReturn
    /\ UNCHANGED <<envVars, global_stop, flag_set, handleMaps,
                   monitoring_active, nthreads, main>>
    /\ UNCHANGED <<detectorVars, engine>>

\* lines 250-285 (287-294 when the cycle call raised): apply the outcome to
\* the counters, query the market again and schedule the next cycle
LoopApply(t) ==
    /\ threads[t].pc = "apply"
    /\ LET r == threads[t].region
           result == threads[t].result
       IN  IF result.raised
           THEN /\ HandleCycleError(r, <<ErrText>>)
                /\ threads' = [threads EXCEPT ![t].pc = "head",
                                              ![t].cycle_in_progress = FALSE,
                                              ![t].open_since = None,
                                              ![t].result = NoResult]
                /\ UNCHANGED <<last_cycle_time, total_cycles_today,
                               next_cycle_time>>
           ELSE /\ IF result.success
                   THEN /\ consecutive_failures' = Put(consecutive_failures, r, 0)
                        /\ last_cycle_time' = Put(last_cycle_time, r, result.end_time)
                        /\ total_cycles_today' =
                               Put(total_cycles_today, r,
                                   DefaultGet(total_cycles_today, r) + 1)
                        /\ UNCHANGED <<is_paused, pause_until, pause_reason>>
                   ELSE /\ HandleCycleError(r, ErrorOf(result))
                        /\ UNCHANGED <<last_cycle_time, total_cycles_today>>
                /\ next_cycle_time' =
                       Put(next_cycle_time, r, NextCycleAfter(r, threads[t].interval))
                /\ threads' = [threads EXCEPT
                       ![t].pc = "head",
                       ![t].cycle_in_progress = FALSE,
                       ![t].open_since =
                           IF market[r] = "open" THEN result.end_time ELSE None,
                       ![t].result = NoResult,
                       ![t].was_market_open =
                           IF market[r] = "open" THEN @ ELSE FALSE]
    /\ returned' = NoReturn
    /\ UNCHANGED <<envVars, global_stop, flag_set, handleMaps,
                   monitoring_active, nthreads, main>>
    /\ UNCHANGED <<detectorVars, engine>>

\* ---------------------------------- the circuit breaker, write by write
\* the failed cycle whose count reaches the threshold
Trips(t) ==
    /\ threads[t].pc = "apply"
    /\ ~threads[t].result.raised
    /\ ~threads[t].result.success
    /\ DefaultGet(consecutive_failures, threads[t].region) + 1 >= FailureThreshold

\* lines 250-285 for every outcome that does not trip the breaker
LoopApplyUntripped(t) ==
    /\ ~Trips(t)
    /\ LoopApply(t)

\* lines 417-418 and 441: the count is written, the deadline computed
HandleCycleErrorCount(t) ==
    /\ Trips(t)
    /\ consecutive_failures' =
          Put(consecutive_failures, threads[t].region,
              DefaultGet(consecutive_failures, threads[t].region) + 1)
    /\ threads' = [threads EXCEPT ![t].pc = "pause_flag",
                                  ![t].pause_until_local = now + PauseMinutes]
    /\ returned' = NoReturn
    /\ UNCHANGED <<envVars, global_stop, flag_set, handleMaps,
                   monitoring_active, is_paused, pause_until, pause_reason,
                   last_cycle_time, next_cycle_time, total_cycles_today,
                   nthreads, main>>
    /\ UNCHANGED <<detectorVars, engine>>

\* line 443: self._is_paused[region] = True
PauseSetFlag(t) ==
    /\ threads[t].pc = "pause_flag"
    /\ is_paused' = Put(is_paused, threads[t].region, TRUE)
    /\ threads' = [threads EXCEPT ![t].pc = "pause_until"]
    /\ returned' = NoReturn
    /\ UNCHANGED <<envVars, global_stop, flag_set, handleMaps,
                   monitoring_active, pause_until, pause_reason,
                   consecutive_failures, last_cycle_time, next_cycle_time,
                   total_cycles_today, nthreads, main>>
    /\ UNCHANGED <<detectorVars, engine>>

\* line 444: self._pause_until[region] = pause_until
PauseSetUntil(t) ==
    /\ threads[t].pc = "pause_until"
    /\ pause_until' = Put(pause_until, threads[t].region,
                          threads[t].pause_until_local)
    /\ threads' = [threads EXCEPT ![t].pc = "pause_reason"]
    /\ returned' = NoReturn
    /\ UNCHANGED <<envVars, global_stop, flag_set, handleMaps,
                   monitoring_active, is_paused, pause_reason,
                   consecutive_failures, last_cycle_time, next_cycle_time,
                   total_cycles_today, nthreads, main>>
    /\ UNCHANGED <<detectorVars, engine>>

\* line 445: self._pause_reason[region] = reason, then the rest of the
\* iteration (lines 261-285)
PauseSetReason(t) ==
    /\ threads[t].pc = "pause_reason"
    /\ LET r == threads[t].region
           result == threads[t].result
       IN  /\ pause_reason' = Put(pause_reason, r,
                                  <<"3 consecutive failures: ">> \o ErrorOf(result))
           /\ next_cycle_time' =
                  Put(next_cycle_time, r, NextCycleAfter(r, threads[t].interval))
           /\ threads' = [threads EXCEPT
                  ![t].pc = "head",
                  ![t].cycle_in_progress = FALSE,
                  ![t].open_since =
                      IF market[r] = "open" THEN result.end_time ELSE None,
                  ![t].pause_until_local = None,
                  ![t].result = NoResult,
                  ![t].was_market_open =
                      IF market[r] = "open" THEN @ ELSE FALSE]
    /\ returned' = NoReturn
    /\ UNCHANGED <<envVars, global_stop, flag_set, handleMaps,
                   monitoring_active, is_paused, pause_until,
                   consecutive_failures, last_cycle_time,
                   total_cycles_today, nthreads, main>>
    /\ UNCHANGED <<detectorVars, engine>>

\* ------------------------------------------------------------ status query
\* get_monitoring_status(region): builds the snapshot from eight .get() reads;
\* the caller is the client that also calls start_monitoring/stop_monitoring
GetMonitoringStatus(region) ==
    /\ main.pc = "idle"
    /\ returned' = [NoReturn EXCEPT !.kind = "status",
                                   !.status = MonitoringStatus(region)]
    /\ consecutive_failures' = AfterGet(consecutive_failures, region)
    /\ total_cycles_today' = AfterGet(total_cycles_today, region)
    /\ UNCHANGED <<monitoring_active, is_paused, pause_reason, pause_until,
                   last_cycle_time, next_cycle_time>>
    /\ UNCHANGED <<envVars, global_stop, flag_set, handleMaps, threads,
                   nthreads, main>>
    /\ UNCHANGED <<detectorVars, engine>>

\* ------------------------------------------------- direct cycle execution
\* monitor.execute_analysis_cycle(region) called by the client itself
ExecuteAnalysisCycleCall(region, analysis, outs) ==
    /\ main.pc = "idle"
    /\ returned' = [NoReturn EXCEPT
           !.kind = "cycle",
           !.result = ExecuteAnalysisCycle(region, analysis, outs, now),
           !.collab = [kind |-> analysis.kind, n |-> analysis.n, outs |-> outs]]
    /\ UNCHANGED <<envVars, global_stop, flag_set, handleMaps, statusMaps,
                   threads, nthreads, main>>
    /\ UNCHANGED <<detectorVars, engine>>

\* ------------------------------------------------------------- environment
\* the clock moves on
AdvanceTime ==
    /\ now + ClockStep <= MaxTime
    /\ now' = now + ClockStep
    /\ returned' = NoReturn
    /\ UNCHANGED <<config, market, global_stop, flag_set, handleMaps,
                   statusMaps, threads, nthreads, main>>
    /\ UNCHANGED <<detectorVars, engine>>

\* the market of a region opens, closes, or its detector starts failing
MarketChange(r, m) ==
    /\ market[r] # m
    /\ \E i \in 1..Len(config.monitored_regions) : config.monitored_regions[i] = r
    /\ market' = [market EXCEPT ![r] = m]
    /\ returned' = NoReturn
    /\ UNCHANGED <<config, now, global_stop, flag_set, handleMaps,
                   statusMaps, threads, nthreads, main>>
    /\ UNCHANGED <<detectorVars, engine>>

\* ------------------------------------------------------ market-hours query
\* the UTC minutes of a day at which the detector is asked: around the open
\* and close times of the three markets, in winter and in summer time
SampleTimes ==
    { TimeOfDay(1, 29), TimeOfDay(1, 30), TimeOfDay(2, 0), TimeOfDay(6, 59),
      TimeOfDay(7, 0), TimeOfDay(8, 0), TimeOfDay(13, 30), TimeOfDay(14, 30),
      TimeOfDay(20, 0), TimeOfDay(21, 0) }

Instants == { d * MinutesPerDay + m : d \in 0..MaxDay, m \in SampleTimes }

\* the regions a caller may pass: the MarketRegion values and a value
\* without an entry in MARKET_HOURS
QueriedRegions == MarketHoursRegions \cup {"mars"}

\* detector.is_market_open(region, check_time)
IsMarketOpenCall(region, t, tzFails) ==
    /\ LET res == IsMarketOpen(region, t, tzFails)
       IN  /\ answer' = [valid |-> TRUE, region |-> region, t |-> t,
                         tz_failed |-> tzFails, open |-> res.open,
                         raised |-> res.raised]
           /\ holidays_cache' = res.cache
           /\ holiday_reads' =
                 IF res.reads = 0 THEN holiday_reads
                 ELSE [holiday_reads EXCEPT ![region] = @ + res.reads]
           /\ res.reads > 0 => holiday_reads[region] + res.reads <= MaxLoads
    /\ UNCHANGED <<holiday_source, envVars, global_stop, flag_set, handleMaps,
                   statusMaps, threads, nthreads, main, returned, engine>>

\* every step but a change of a market's state
NextPair ==
    \/ \E c \in BOOLEAN : StartMonitoring(c)
    \/ StopSignal
    \/ StopNextRegion
    \/ StopJoinReturn
    \/ \E t \in Tids, c \in BOOLEAN : LoopEnter(t, c)
    \/ \E t \in Tids : LoopHead(t)
    \/ \E t \in Tids : LoopMarketCheck(t)
    \/ \E t \in Tids : LoopShouldExecute(t)
    \/ \E t \in Tids, a \in AnalysisOutcomes :
          \E outs \in TradeOutcomeSeqs(a.n) : LoopCycle(t, a, outs)
    \/ \E t \in Tids : LoopApply(t)
    \/ \E r \in Regions : GetMonitoringStatus(r)
    \/ AdvanceTime

Next ==
    \/ NextPair
    \/ \E r \in Regions, m \in MarketStates : MarketChange(r, m)

\* one monitored region, everything may happen
Spec == Init /\ [][Next]_vars

\* two monitored regions
SpecPair == InitPair /\ [][NextPair]_vars

\* execute_analysis_cycle as a function of what its collaborators do
NextCycle ==
    \/ \E r \in Regions, a \in AnalysisOutcomes :
          \E outs \in TradeOutcomeSeqs(a.n) : ExecuteAnalysisCycleCall(r, a, outs)
    \/ AdvanceTime

SpecCycle == Init /\ [][NextCycle]_vars

\* a detector with any holiday configuration, asked about any instant
InitHours ==
    /\ config = PairConfig
    /\ market = [r \in Regions |-> "closed"]
    /\ holiday_source \in HolidayConfigs
    /\ engine = EngineIdle("none", TRUE)
    /\ InitMonitor

NextHours ==
    \E region \in QueriedRegions, t \in Instants, tzFails \in BOOLEAN :
        IsMarketOpenCall(region, t, tzFails)

SpecHours == InitHours /\ [][NextHours]_vars

\* two monitored regions running side by side without a stop: the market of
\* china opens and closes, so that its loop can fail often enough to trip the
\* breaker; the market of usa stays open
InitBreaker ==
    /\ config = PairConfig
    /\ market = [r \in Regions |-> "open"]
    /\ holiday_source = NoHolidays
    /\ engine = EngineIdle("none", TRUE)
    /\ InitMonitor

NextBreaker ==
    \/ StartMonitoring(FALSE)
    \/ \E t \in Tids : LoopEnter(t, FALSE)
    \/ \E t \in Tids : LoopHead(t)
    \/ \E t \in Tids : LoopMarketCheck(t)
    \/ \E t \in Tids : LoopShouldExecute(t)
    \/ \E t \in Tids, k \in {"ok", "fail"} :
          LoopCycle(t, [kind |-> k, n |-> 0], <<>>)
    \/ \E t \in Tids : LoopApply(t)
    \/ AdvanceTime
    \/ \E m \in {"open", "closed"} : MarketChange("china", m)

SpecBreaker == InitBreaker /\ [][NextBreaker]_vars

\* the clock goes on and a loop that sleeps wakes up and reaches the head of
\* its while loop again
FairBreaker ==
    /\ SpecBreaker
    /\ WF_vars(AdvanceTime)
    /\ \A t \in Tids : WF_vars(LoopHead(t))

\* lines 441-445 are consecutive statements: no clock reading, which is
\* ClockStep minutes after the one before, falls between them
AdvanceTimeOutsidePause ==
    /\ \A t \in Tids :
          threads[t].pc \notin {"pause_flag", "pause_until", "pause_reason"}
    /\ AdvanceTime

\* the same two loops with the writes of _pause_monitoring as separate steps
\* and a client that asks for the status in between
NextPauseSteps ==
    \/ StartMonitoring(FALSE)
    \/ \E t \in Tids : LoopEnter(t, FALSE)
    \/ \E t \in Tids : LoopHead(t)
    \/ \E t \in Tids : LoopMarketCheck(t)
    \/ \E t \in Tids : LoopShouldExecute(t)
    \/ \E t \in Tids, k \in {"ok", "fail"} :
          LoopCycle(t, [kind |-> k, n |-> 0], <<>>)
    \/ \E t \in Tids : LoopApplyUntripped(t)
    \/ \E t \in Tids : HandleCycleErrorCount(t)
    \/ \E t \in Tids : PauseSetFlag(t)
    \/ \E t \in Tids : PauseSetUntil(t)
    \/ \E t \in Tids : PauseSetReason(t)
    \/ \E r \in Regions : GetMonitoringStatus(r)
    \/ AdvanceTimeOutsidePause
    \/ \E m \in {"open", "closed"} : MarketChange("china", m)

SpecPauseSteps == InitBreaker /\ [][NextPauseSteps]_vars

\* one region with its market open, a client that starts, stops and starts
\* again, and collaborators that return without raising
InitRestart ==
    /\ config \in SoloConfigs
    /\ market = [r \in Regions |-> "open"]
    /\ holiday_source = NoHolidays
    /\ engine = EngineIdle("none", TRUE)
    /\ InitMonitor

NextRestart ==
    \/ StartMonitoring(FALSE)
    \/ StopSignal
    \/ StopNextRegion
    \/ StopJoinReturn
    \/ \E t \in Tids : LoopEnter(t, FALSE)
    \/ \E t \in Tids : LoopHead(t)
    \/ \E t \in Tids : LoopMarketCheck(t)
    \/ \E t \in Tids : LoopShouldExecute(t)
    \/ \E t \in Tids, k \in {"ok", "fail"} :
          LoopCycle(t, [kind |-> k, n |-> 0], <<>>)
    \/ \E t \in Tids : LoopApply(t)
    \/ AdvanceTime

SpecRestart == InitRestart /\ [][NextRestart]_vars

\* one step of loop thread t, every call it makes returning
LoopStep(t) ==
    \/ LoopEnter(t, FALSE)
    \/ LoopHead(t)
    \/ LoopMarketCheck(t)
    \/ LoopShouldExecute(t)
    \/ \E k \in {"ok", "fail"} : LoopCycle(t, [kind |-> k, n |-> 0], <<>>)
    \/ LoopApply(t)

\* every loop thread keeps running: its sleeps end and its calls return
FairRestart == SpecRestart /\ \A t \in Tids : WF_vars(LoopStep(t))

\* a monitor started on a configuration with an error in it, markets open
InitConfig ==
    /\ config \in ErrorConfigs
    /\ market = [r \in Regions |-> "open"]
    /\ holiday_source = NoHolidays
    /\ engine = EngineIdle("none", TRUE)
    /\ InitMonitor

NextConfig ==
    \/ \E c \in BOOLEAN : StartMonitoring(c)
    \/ \E t \in Tids, c \in BOOLEAN : LoopEnter(t, c)
    \/ \E t \in Tids : LoopHead(t)
    \/ \E t \in Tids : LoopMarketCheck(t)
    \/ \E t \in Tids : LoopShouldExecute(t)
    \/ \E t \in Tids, k \in {"ok", "fail"} :
          LoopCycle(t, [kind |-> k, n |-> 0], <<>>)
    \/ \E t \in Tids : LoopApply(t)
    \/ AdvanceTime

SpecConfig == InitConfig /\ [][NextConfig]_vars

\* an engine with any notifier, with or without a market monitor, called
\* again and again
InitAnalysis ==
    /\ config = PairConfig
    /\ market = [r \in Regions |-> "closed"]
    /\ holiday_source = NoHolidays
    /\ engine \in { EngineIdle(n, m) : n \in Notifiers, m \in BOOLEAN }
    /\ InitMonitor

NextAnalysis ==
    \/ \E regions \in RegionArgs : ExecuteScheduledAnalysisCall(regions)
    \/ \E outcome \in AttemptOutcomes : AnalysisAttempt(outcome)
    \/ AnalysisSleep
    \/ NotifyAdministrators

SpecAnalysis == InitAnalysis /\ [][NextAnalysis]_vars

\* the caller of stop_monitoring keeps running: a join with a timeout returns,
\* the for-loop goes on.  Nothing is assumed of the loop threads.
FairPair == SpecPair /\ WF_vars(StopNextRegion) /\ WF_vars(StopJoinReturn)

\* ================================================================== claims

\* the loop thread t takes the step that leaves position p
Leaves(t, p) == threads[t].pc = p /\ threads'[t] # threads[t]

\* C1: whenever the market-open query made by the cycle decision answers
\* closed or raises, the decision is no and the loop does not enter a cycle
\* in that tick, whatever next_cycle_time holds.
C1_ClosedMarketNoCycle ==
    [][ /\ \A r \in Regions, m \in MarketStates \ {"open"} :
              ~ShouldExecuteCycle(r, m, now)
        /\ \A t \in Tids :
              (Leaves(t, "should") /\ market[threads[t].region] # "open")
                  => threads'[t].pc = "head" ]_vars

\* C1 witness: the decision is about to be taken with the detector failing,
\* after the tick's first query saw the market open and with a cycle due
C1_Witness ==
    \E t \in Tids :
        /\ threads[t].pc = "should"
        /\ threads[t].was_market_open
        /\ market[threads[t].region] = "error"
        /\ Get(next_cycle_time, threads[t].region, None) = None

\* C2: a recorded failure that leaves the count below 3 leaves the region
\* unpaused; the one that brings it to exactly 3 pauses the region until
\* now + 30 minutes with a reason made of "3 consecutive failures" and the
\* text of the last error.
C2_BreakerThreshold ==
    [][ \A t \in Tids :
          (Leaves(t, "apply") /\ ~threads[t].result.success) =>
            LET r == threads[t].region
                n == DefaultGet(consecutive_failures', r)
            IN  /\ n < FailureThreshold => ~Get(is_paused', r, FALSE)
                /\ n = FailureThreshold =>
                     /\ Get(is_paused', r, FALSE)
                     /\ Get(pause_until', r, None) = now + PauseMinutes
                     /\ Get(pause_until', r, None) > now
                     /\ Get(pause_reason', r, NoReason) =
                            <<"3 consecutive failures: ">>
                                \o ErrorOf(threads[t].result) ]_vars

\* C2 witness: the third consecutive failure has just tripped the breaker
C2_Witness ==
    \E r \in Regions :
        /\ DefaultGet(consecutive_failures, r) = FailureThreshold
        /\ Get(is_paused, r, FALSE)
        /\ Get(pause_until, r, None) = now + PauseMinutes
        /\ Len(Get(pause_reason, r, NoReason)) > 1

\* the loop thread t records a failed / a successful cycle, or resumes
RecordsFailure(t) == Leaves(t, "apply") /\ ~threads[t].result.success
RecordsSuccess(t) == Leaves(t, "apply") /\ threads[t].result.success
Resumes(t) ==
    /\ Leaves(t, "head")
    /\ threads'[t].pc = "market_check"
    /\ Get(is_paused, threads[t].region, FALSE)

\* C3: consecutive_failures of a region goes up by exactly 1 on each recorded
\* failure, goes to 0 on a successful cycle and on a pause-expiry resume, and
\* is changed by no other step (start, stop, status query, clock, market).
C3_FailureCounterSteps ==
    [][ /\ \A t \in Tids :
             LET r == threads[t].region
                 before == DefaultGet(consecutive_failures, r)
                 after == DefaultGet(consecutive_failures', r)
             IN  /\ RecordsFailure(t) => after = before + 1
                 /\ RecordsSuccess(t) => after = 0
                 /\ Resumes(t) => after = 0
        /\ consecutive_failures' # consecutive_failures =>
             \E t \in Tids :
                 /\ RecordsFailure(t) \/ RecordsSuccess(t) \/ Resumes(t)
                 /\ \A r \in Regions \ {threads[t].region} :
                       /\ (r \in DOMAIN consecutive_failures')
                              = (r \in DOMAIN consecutive_failures)
                       /\ DefaultGet(consecutive_failures', r)
                              = DefaultGet(consecutive_failures, r) ]_vars

\* C3 witness: a region resumed after its pause: the count is back at 0 and
\* the pause fields are cleared, half an hour after the breaker tripped
C3_Witness ==
    \E t \in Tids :
        /\ threads[t].pc = "market_check"
        /\ threads[t].region \in DOMAIN consecutive_failures
        /\ consecutive_failures[threads[t].region] = 0
        /\ Get(pause_until, threads[t].region, 0) = None
        /\ Get(last_cycle_time, threads[t].region, None) = None
        /\ now >= PauseMinutes

\* some call of start_monitoring
StartCall == \E c \in BOOLEAN : StartMonitoring(c)

\* the loop of region r registered in the thread map is alive
LoopAlive(r) ==
    r \in DOMAIN monitoring_threads /\ IsAlive(monitoring_threads[r])

\* the entries of region r in the status maps
StatusEntries(r) ==
    << r \in DOMAIN monitoring_active, Get(monitoring_active, r, FALSE),
       r \in DOMAIN is_paused, Get(is_paused, r, FALSE),
       r \in DOMAIN pause_until, Get(pause_until, r, None),
       r \in DOMAIN pause_reason, Get(pause_reason, r, NoReason),
       r \in DOMAIN consecutive_failures, Get(consecutive_failures, r, 0),
       r \in DOMAIN last_cycle_time, Get(last_cycle_time, r, None),
       r \in DOMAIN next_cycle_time, Get(next_cycle_time, r, None),
       r \in DOMAIN total_cycles_today, Get(total_cycles_today, r, 0) >>

\* C4: a start_monitoring call leaves a region whose loop is alive as it is:
\* same thread, same stop flag, no new thread for the region, status entries
\* not re-initialised.
C4_StartKeepsLiveLoop ==
    [][ StartCall =>
          \A r \in Regions :
              LoopAlive(r) =>
                  /\ r \in DOMAIN monitoring_threads'
                  /\ monitoring_threads'[r] = monitoring_threads[r]
                  /\ r \in DOMAIN stop_flags'
                  /\ stop_flags'[r] = stop_flags[r]
                  /\ StatusEntries(r)' = StatusEntries(r)
                  /\ \A t \in Tids :
                        (threads'[t].region = r /\ IsAlive(t)')
                            => threads'[t] = threads[t] ]_vars

\* C4 witness: a started region whose loop is alive and paused while the
\* client is free to call start_monitoring again
C4_Witness ==
    \E r \in Regions :
        /\ LoopAlive(r)
        /\ main.pc = "idle"
        /\ ~global_stop
        /\ Get(is_paused, r, FALSE)

\* the step with which stop_monitoring returns
StopReturns ==
    /\ StopSignal \/ StopNextRegion \/ StopJoinReturn
    /\ main'.pc = "idle"

\* C5 as stated: when stop_monitoring returns, the thread map, the stop-flag
\* map and every per-region status map are empty.
C5_AllMapsEmptyAfterStop ==
    [][ StopReturns =>
          /\ monitoring_threads' = EmptyDict
          /\ stop_flags' = EmptyDict
          /\ monitoring_active' = EmptyDict
          /\ is_paused' = EmptyDict
          /\ pause_until' = EmptyDict
          /\ pause_reason' = EmptyDict
          /\ consecutive_failures' = EmptyDict
          /\ last_cycle_time' = EmptyDict
          /\ next_cycle_time' = EmptyDict
          /\ total_cycles_today' = EmptyDict ]_vars

\* C5 amended: when stop_monitoring returns, the thread map and the stop-flag
\* map are empty; the status maps are not cleared, each keeps its keys.
C5_HandleMapsEmptyAfterStop ==
    [][ StopReturns =>
          /\ monitoring_threads' = EmptyDict
          /\ stop_flags' = EmptyDict
          /\ DOMAIN monitoring_active' = DOMAIN monitoring_active
                                             \cup DOMAIN stop_flags
          /\ is_paused' = is_paused
          /\ pause_until' = pause_until
          /\ pause_reason' = pause_reason
          /\ consecutive_failures' = consecutive_failures
          /\ last_cycle_time' = last_cycle_time
          /\ next_cycle_time' = next_cycle_time
          /\ total_cycles_today' = total_cycles_today ]_vars

\* C5 witness: stop_monitoring has returned, the two handle maps are empty
\* and the status maps still hold the stopped region
C5_Witness ==
    /\ main.pc = "idle"
    /\ global_stop
    /\ monitoring_threads = EmptyDict
    /\ stop_flags = EmptyDict
    /\ \E r \in DOMAIN monitoring_active :
          /\ ~monitoring_active[r]
          /\ r \in DOMAIN is_paused
          /\ r \in DOMAIN consecutive_failures

\* C6: stop_monitoring terminates.  The seconds spent waiting never go back
\* and never pass the 30 s budget, a join is only entered with budget left,
\* and a stop that has begun returns, also when a loop never leaves its cycle.
C6_StopTerminates ==
    /\ [][ (main.pc = "join" /\ main'.pc = "join") =>
              /\ main'.elapsed >= main.elapsed
              /\ main'.elapsed <= StopTimeout
              /\ main'.waiting => RemainingTime(main'.elapsed) > 0 ]_vars
    /\ (main.pc = "join") ~> (main.pc = "idle")

\* C6 witness: stop_monitoring has returned although a loop is still inside
\* its cycle
C6_Witness ==
    /\ main.pc = "idle"
    /\ global_stop
    /\ monitoring_threads = EmptyDict
    /\ \E t \in Tids : threads[t].pc = "cycle"

\* start_monitoring creates a thread for region r in this step
Spawns(r) ==
    /\ StartCall
    /\ \E t \in Tids :
          /\ threads[t].pc = "unborn"
          /\ threads'[t].pc = "spawned"
          /\ threads'[t].region = r

\* C7: right after a start_monitoring call that spawns a loop for region r,
\* the status of r is active, not paused, 0 consecutive failures and 0 cycles,
\* whatever happened before the call.
C7_FreshStatusAfterStart ==
    [][ \A r \in Regions :
          Spawns(r) =>
              /\ MonitoringStatus(r)'.is_active
              /\ ~MonitoringStatus(r)'.is_paused
              /\ MonitoringStatus(r)'.consecutive_failures = 0
              /\ MonitoringStatus(r)'.total_cycles_today = 0 ]_vars

\* the status get_monitoring_status returns for a region without any entry
DefaultStatus(r) == [NoStatus EXCEPT !.valid = TRUE, !.region = r]

\* C8: get_monitoring_status changes no map of the monitor (no entry is
\* added), and for a region that was never started it returns inactive, not
\* paused, zero counters and every optional field unset.
C8_StatusQueryIsPureRead ==
    [][ \A r \in Regions :
          GetMonitoringStatus(r) =>
              /\ statusMaps' = statusMaps
              /\ handleMaps' = handleMaps
              /\ threads' = threads
              /\ returned'.status = MonitoringStatus(r)
              /\ r \notin DOMAIN monitoring_active
                    => returned'.status = DefaultStatus(r) ]_vars

\* C8 witness: the status of a never-started region has just been returned
\* while another region is being monitored
C8_Witness ==
    /\ returned.kind = "status"
    /\ returned.status.region \notin DOMAIN monitoring_active
    /\ returned.status = DefaultStatus(returned.status.region)
    /\ \E r \in Regions : LoopAlive(r)

\* number of calls of a cycle that returned a trade
TradesReturned(outs) == Cardinality({ i \in 1..Len(outs) : outs[i] = "trade" })

\* C9: when the analysis succeeds with n recommendations, the trade executor
\* is called once per recommendation, in order, whichever calls raise, and
\* the result is a success with recommendations_count = n and trades_executed
\* = the number of calls that returned a trade.
C9_TradeFailureIsolation ==
    (returned.kind = "cycle" /\ returned.collab.kind = "ok") =>
        /\ returned.result.trade_calls = Recommendations(returned.collab.n)
        /\ returned.result.success
        /\ ~returned.result.raised
        /\ returned.result.recommendations_count = returned.collab.n
        /\ returned.result.trades_executed = TradesReturned(returned.collab.outs)
        /\ returned.result.error_message = NoError

\* C9 witness: two recommendations, the first call raised, the second
\* returned a trade
C9_Witness ==
    /\ returned.kind = "cycle"
    /\ returned.collab.kind = "ok"
    /\ returned.collab.outs = <<"raise", "trade">>
    /\ returned.result.success
    /\ returned.result.recommendations_count = 2
    /\ returned.result.trades_executed = 1

\* C10: execute_analysis_cycle never raises; when the analysis reports
\* failure or raises, the result is a failure with zero counts and an error
\* message, and no trade call was made.
C10_CycleNeverRaises ==
    returned.kind = "cycle" =>
        /\ ~returned.result.raised
        /\ returned.result.analysis_calls = << <<returned.result.region>> >>
        /\ returned.collab.kind \in {"fail", "raise"} =>
              /\ ~returned.result.success
              /\ returned.result.recommendations_count = 0
              /\ returned.result.trades_executed = 0
              /\ returned.result.error_message # NoError
              /\ returned.result.trade_calls = <<>>

\* C10 witness: the analysis reported failure with recommendations attached
\* whose trades would have succeeded
C10_Witness ==
    /\ returned.kind = "cycle"
    /\ returned.collab.kind = "fail"
    /\ returned.collab.n = MaxRecs
    /\ \A i \in 1..MaxRecs : returned.collab.outs[i] = "trade"
    /\ ~returned.result.success
    /\ returned.result.error_message = <<"Analysis failed: ", ErrText>>

\* the loop thread t gets the result of its execute_analysis_cycle call
CycleReturns(t) == threads[t].pc = "cycle" /\ threads'[t].pc = "apply"

\* C11: every cycle of a loop calls the analysis collaborator exactly once,
\* with the one-element list [region], and a cycle that reported failure
\* adds exactly one to the region's consecutive_failures when it is applied.
C11_OneAnalysisCallPerCycle ==
    [][ \A t \in Tids :
          /\ CycleReturns(t) =>
                threads'[t].result.analysis_calls = << <<threads[t].region>> >>
          /\ RecordsFailure(t) =>
                /\ threads[t].result.analysis_calls = << <<threads[t].region>> >>
                /\ DefaultGet(consecutive_failures', threads[t].region)
                     = DefaultGet(consecutive_failures, threads[t].region) + 1 ]_vars

\* C11 witness: a cycle whose analysis reported failure has returned to the
\* loop after one call, on top of one failure recorded earlier
C11_Witness ==
    \E t \in Tids :
        /\ threads[t].pc = "apply"
        /\ threads[t].result.error_message = <<"Analysis failed: ", ErrText>>
        /\ threads[t].result.analysis_calls = << <<threads[t].region>> >>
        /\ DefaultGet(consecutive_failures, threads[t].region) = 1

\* the local wall clock of the last is_market_open call
AnswerLocal == UtcToLocal(answer.t, MARKET_HOURS[answer.region].timezone)

\* a call for a region of MARKET_HOURS in which no internal step failed
AnsweredCleanly ==
    /\ answer.valid
    /\ answer.region \in MarketHoursRegions
    /\ ~answer.tz_failed
    /\ ~holiday_source[answer.region].raises

\* the dates of the holiday list configured for a region
HolidayCalendar(r) ==
    { s.day : s \in { holiday_source[r].dates[i] :
                        i \in 1..Len(holiday_source[r].dates) } \cap
                    { IsoDate(d) : d \in 0..MaxDay + 1 } }

\* C12: for every supported region and instant, is_market_open is true
\* exactly when, on the region's local clock at that instant, it is Monday to
\* Friday, the local date is no holiday of the region, and open <= local
\* time < close.
C12_OpenExactlyInSession ==
    AnsweredCleanly =>
        (answer.open <=>
            /\ Weekday(AnswerLocal) \in 0..4
            /\ DateOf(AnswerLocal) \notin HolidayCalendar(answer.region)
            /\ MARKET_HOURS[answer.region].open <= TimeOf(AnswerLocal)
            /\ TimeOf(AnswerLocal) < MARKET_HOURS[answer.region].close)

\* C12 witness: Hong Kong answered closed at exactly 16:00 local on a
\* weekday without holiday
C12_Witness ==
    /\ AnsweredCleanly
    /\ answer.region = "hong_kong"
    /\ TimeOf(AnswerLocal) = TimeOfDay(16, 0)
    /\ Weekday(AnswerLocal) \in 0..4
    /\ DateOf(AnswerLocal) \notin HolidayCalendar("hong_kong")
    /\ ~answer.open

\* the last call asked about a weekday instant inside the region's trading
\* hours, and the timezone conversion worked
InSessionOnWeekday ==
    /\ answer.valid
    /\ answer.region \in MarketHoursRegions
    /\ ~answer.tz_failed
    /\ Weekday(AnswerLocal) \in 0..4
    /\ InTradingHours(TimeOf(AnswerLocal), MARKET_HOURS[answer.region])

\* C13: on a date of a region's holiday list, is_market_open of that region
\* is false at every instant of that local date, also inside trading hours
\* on a weekday; a date that is a holiday of another region only does not
\* close the region.
C13_HolidayClosesOwnRegionOnly ==
    /\ ( /\ answer.valid
         /\ answer.region \in MarketHoursRegions
         /\ ~answer.tz_failed
         /\ DateOf(AnswerLocal) \in HolidayCalendar(answer.region) )
       => ~answer.open
    /\ ( /\ InSessionOnWeekday
         /\ DateOf(AnswerLocal) \notin HolidayCalendar(answer.region)
         /\ \E other \in MarketHoursRegions \ {answer.region} :
               DateOf(AnswerLocal) \in HolidayCalendar(other) )
       => answer.open

\* C13 witness: the USA asked inside its trading hours on its Tuesday
\* holiday, listed after a malformed string, with the Hong Kong calendar
\* already loaded
C13_Witness ==
    /\ InSessionOnWeekday
    /\ answer.region = "usa"
    /\ holiday_source["usa"] = SourceTuesday
    /\ DateOf(AnswerLocal) = 1
    /\ "hong_kong" \in DOMAIN holidays_cache
    /\ ~answer.open

\* an internal step of the last is_market_open call failed: no entry for the
\* region, a failed timezone conversion, or a holiday list that could not
\* be fetched
InternalFailure ==
    \/ answer.region \notin MarketHoursRegions
    \/ answer.tz_failed
    \/ holiday_source[answer.region].raises

\* C14: is_market_open never raises, and it answers false whenever an
\* internal step failed: unknown region, failed timezone conversion, or an
\* error raised by the holiday source.
C14_FailureAnswersClosed ==
    answer.valid =>
        /\ ~answer.raised
        /\ InternalFailure => ~answer.open

\* the live monitoring loops of region r
LiveLoops(r) == { t \in Tids : IsAlive(t) /\ threads[t].region = r }

\* C15: in every reachable state, every region whose status says
\* is_active = true has exactly one live monitoring loop.
C15_ActiveHasOneLoop ==
    \A r \in Regions :
        MonitoringStatus(r).is_active => Cardinality(LiveLoops(r)) = 1

\* some live loop of region r takes the step
OwnLoopSteps(r) == \E t \in LiveLoops(r) : threads'[t] # threads[t]

\* C16: while a loop of region r is alive, the status entries of r are
\* written by that loop only: no step of another region's loop, of
\* start_monitoring or of stop_monitoring changes them.
C16_StatusWrittenByOwnLoopOnly ==
    [][ \A r \in Regions :
          (LiveLoops(r) # {} /\ ~OwnLoopSteps(r))
              => StatusEntries(r)' = StatusEntries(r) ]_vars

\* the circuit-breaker and schedule entries of region r
BreakerEntries(r) ==
    << r \in DOMAIN consecutive_failures, Get(consecutive_failures, r, 0),
       r \in DOMAIN is_paused, Get(is_paused, r, FALSE),
       r \in DOMAIN pause_until, Get(pause_until, r, None),
       r \in DOMAIN pause_reason, Get(pause_reason, r, NoReason),
       r \in DOMAIN next_cycle_time, Get(next_cycle_time, r, None),
       r \in DOMAIN total_cycles_today, Get(total_cycles_today, r, 0) >>

\* C17: the breaker is per region: a step of a loop of region A (a recorded
\* failure, a pause, a resume) leaves the breaker entries of every other
\* region B unchanged, and a loop of B that is not paused itself passes the
\* pause check and starts the cycle its own decision asks for, whether or
\* not A is paused.
C17_BreakerPerRegion ==
    [][ \A t \in Tids :
          /\ (IsAlive(t) /\ threads'[t] # threads[t]) =>
                \A b \in Regions \ {threads[t].region} :
                    BreakerEntries(b)' = BreakerEntries(b)
          /\ ( /\ Leaves(t, "head")
               /\ ~global_stop /\ threads[t].stop_flag \notin flag_set
               /\ ~Get(is_paused, threads[t].region, FALSE) )
                => threads'[t].pc = "market_check"
          /\ ( /\ Leaves(t, "should")
               /\ market[threads[t].region] = "open"
               /\ Get(next_cycle_time, threads[t].region, None) = None )
                => threads'[t].pc = "cycle" ]_vars

\* C17 witness: china is paused after three failures and the usa loop,
\* with no failure and one cycle counted, has started its next cycle
C17_Witness ==
    /\ Get(is_paused, "china", FALSE)
    /\ Get(consecutive_failures, "china", 0) = FailureThreshold
    /\ Get(consecutive_failures, "usa", 0) = 0
    /\ ~Get(is_paused, "usa", FALSE)
    /\ Get(total_cycles_today, "usa", 0) = 1
    /\ \E t \in Tids : threads[t].region = "usa" /\ threads[t].pc = "cycle"

\* the loops of region r that are inside an execute_analysis_cycle call
CyclesInFlight(r) == { t \in Tids : threads[t].region = r /\ threads[t].pc = "cycle" }

\* C18: in every reachable state at most one analysis cycle of a region is
\* in flight, whatever start_monitoring, stop_monitoring (timed out or not)
\* and the loops have done.
C18_OneCycleInFlight ==
    \A r \in Regions : Cardinality(CyclesInFlight(r)) <= 1

\* C18 witness: a second loop of the region has been started while the
\* first, which overran the stop timeout, is still inside its cycle
C18_Witness ==
    \E r \in Regions :
        /\ Cardinality(LiveLoops(r)) = 2
        /\ Cardinality(CyclesInFlight(r)) = 1
        /\ main.pc = "idle"

\* the stop signal of loop t is set
Signalled(t) == global_stop \/ threads[t].stop_flag \in flag_set

\* C19: a cycle that has started runs to completion and its outcome is
\* applied: the loop leaves the cycle only with the result of the whole
\* call (one trade call per recommendation when the analysis succeeded), and
\* the next step of the loop applies that result to the region's counters,
\* whether or not the stop signal is set, stop_monitoring has returned or
\* the market has closed meanwhile.
C19_CycleRunsToCompletion ==
    [][ \A t \in Tids :
          /\ Leaves(t, "cycle") =>
                /\ threads'[t].pc = "apply"
                /\ threads'[t].result.valid
                /\ threads'[t].result.success =>
                      Len(threads'[t].result.trade_calls)
                          = threads'[t].result.recommendations_count
          /\ (Leaves(t, "apply") /\ threads[t].result.success) =>
                /\ DefaultGet(total_cycles_today', threads[t].region)
                     = DefaultGet(total_cycles_today, threads[t].region) + 1
                /\ Get(last_cycle_time', threads[t].region, None)
                     = threads[t].result.end_time
                /\ DefaultGet(consecutive_failures', threads[t].region) = 0
          /\ (Leaves(t, "apply") /\ ~threads[t].result.success) =>
                DefaultGet(consecutive_failures', threads[t].region)
                  = DefaultGet(consecutive_failures, threads[t].region) + 1 ]_vars

\* C19 witness: a cycle has run to its end, trades included, and handed its
\* successful result to the loop although the stop signal was set,
\* stop_monitoring had returned and the market had closed meanwhile
C19_Witness ==
    \E t \in Tids :
        /\ threads[t].pc = "apply"
        /\ threads[t].result.success
        /\ threads[t].result.trades_executed > 0
        /\ Signalled(t)
        /\ main.pc = "idle"
        /\ monitoring_threads = EmptyDict
        /\ market[threads[t].region] = "closed"

\* the configuration has one of the errors: interval outside the allowed
\* range, empty region list, unknown region string
ConfigError ==
    \/ config.monitoring_interval_minutes \notin MinInterval..MaxInterval
    \/ config.monitored_regions = <<>>
    \/ \E i \in 1..Len(config.monitored_regions) :
          config.monitored_regions[i] \notin Regions

\* C20: with a configuration error (interval outside 15-240, empty region
\* list, unknown region string) start_monitoring spawns no loop, and no loop
\* runs with the invalid value.
C20_ConfigErrorSpawnsNoLoop ==
    ConfigError => nthreads = 0

\* the valid region names of the configuration
ValidNames ==
    { config.monitored_regions[i] : i \in 1..Len(config.monitored_regions) }
        \cap Regions

\* C20 as amended: with no valid region in the list start_monitoring spawns
\* no loop; an unknown name beside valid ones is skipped and every valid
\* region gets its loop; the interval is not checked, a loop runs with the
\* configured value as it is.
C20_InvalidNamesSkippedIntervalUnchecked ==
    /\ [](ValidNames = {} => nthreads = 0)
    /\ [](\A t \in Tids :
            /\ IsAlive(t) => threads[t].region \in ValidNames
            /\ threads[t].pc \notin {"unborn", "spawned", "dead"} =>
                  threads[t].interval = config.monitoring_interval_minutes)
    /\ [][ (StartMonitoring(FALSE) /\ config.enabled) =>
              \A r \in ValidNames :
                  /\ r \in DOMAIN monitoring_threads'
                  /\ threads'[monitoring_threads'[r]].pc
                        \notin {"unborn", "dead"} ]_vars

\* C20 witness: loops are running for a list with an unknown name in it,
\* or with an interval below the range
C20_Witness ==
    /\ ConfigError
    /\ \E t \in Tids : threads[t].pc = "cycle" /\ threads[t].region = "usa"
    /\ \/ config.monitored_regions = <<"mars", "usa">>
       \/ config.monitoring_interval_minutes < MinInterval

\* the regions for which this step creates a Thread object
SpawnedRegions ==
    { threads'[t].region :
        t \in { u \in Tids : threads[u].pc = "unborn" /\ threads'[u].pc = "spawned" } }

\* C21: start_monitoring spawns a loop for exactly the configured names that
\* are valid regions (and not already running); an unknown name is skipped.
\* With monitoring disabled, an empty list or no valid name it spawns no loop
\* and leaves the thread map as it was.
C21_SpawnsExactlyValidRegions ==
    [][ \A c \in BOOLEAN :
          StartMonitoring(c) =>
            /\ SpawnedRegions =
                  IF c \/ ~config.enabled THEN {}
                  ELSE { r \in ValidNames : ~LoopAlive(r) }
            /\ \A r \in SpawnedRegions :
                  /\ r \in DOMAIN monitoring_threads'
                  /\ threads'[monitoring_threads'[r]].region = r
            /\ (~config.enabled \/ ValidNames = {}) =>
                  /\ SpawnedRegions = {}
                  /\ monitoring_threads' = monitoring_threads ]_vars

\* C21 witness: started on the list ['mars', 'usa'], a loop for usa has been
\* spawned and the thread map holds usa alone
C21_Witness ==
    /\ config.monitored_regions = <<"mars", "usa">>
    /\ DOMAIN monitoring_threads = {"usa"}
    /\ threads[monitoring_threads["usa"]].pc = "spawned"
    /\ nthreads = 1

\* C22: when stop_monitoring returns, the global stop signal is set, the stop
\* signal of every region that was started is set (the one the stop-flag map
\* held for the region, and the one of every loop still alive), and the
\* status of every region that was started reports is_active = False.
C22_StopSignalsAllStarted ==
    [][ StopReturns =>
          /\ global_stop'
          /\ \A r \in DOMAIN stop_flags : stop_flags[r] \in flag_set'
          /\ \A t \in Tids :
                threads'[t].pc \notin {"unborn", "dead"} => t \in flag_set'
          /\ \A r \in DOMAIN monitoring_active' :
                ~MonitoringStatus(r)'.is_active ]_vars

\* C22 witness: stop_monitoring has returned after a loop was started; the
\* loop's own stop signal and the global one are set, the region is inactive
C22_Witness ==
    /\ main.pc = "idle"
    /\ global_stop
    /\ nthreads >= 1
    /\ threads[1].pc = "head"
    /\ threads[1].stop_flag \in flag_set
    /\ "usa" \in DOMAIN monitoring_active
    /\ ~MonitoringStatus("usa").is_active

\* the call of execute_scheduled_analysis has returned
AnalysisReturned == engine.pc = "done" /\ engine.result.valid

\* C23: execute_scheduled_analysis makes at most 3 attempts and stops at the
\* first that succeeds.  It returns success with retry_count = the number of
\* failed attempts before it (0, 1 or 2), or after 3 failed attempts failure
\* with retry_count = 3 and no recommendations.  It sleeps 300 seconds once
\* after each failed attempt but the last, and never after a success.
C23_ThreeAttemptsThenFailure ==
    /\ engine.attempts <= MaxRetries
    /\ \A i \in 1..Len(engine.waited) : engine.waited[i] = RetryIntervalSeconds
    /\ Len(engine.waited) <= engine.retry_count
    /\ (AnalysisReturned /\ engine.result.success) =>
          /\ engine.result.retry_count \in 0..(MaxRetries - 1)
          /\ engine.attempts = engine.result.retry_count + 1
          /\ Len(engine.waited) = engine.result.retry_count
    /\ (AnalysisReturned /\ ~engine.result.success) =>
          /\ engine.result.retry_count = MaxRetries
          /\ engine.attempts = MaxRetries
          /\ engine.result.recommendations = 0
          /\ Len(engine.waited) = MaxRetries - 1

\* C23 witness: the third attempt succeeded after two failed ones and two
\* waits
C23_Witness ==
    /\ AnalysisReturned
    /\ engine.result.success
    /\ engine.result.retry_count = 2
    /\ engine.waited = <<RetryIntervalSeconds, RetryIntervalSeconds>>

\* C24: the administrator notifier is invoked once in a call whose 3 attempts
\* all failed and never in a call with a successful attempt; no notifier, or
\* a notifier that raises, neither raises out of the call nor changes the
\* result (failure, retry_count = 3).
C24_NotifierOnceOnExhaustion ==
    /\ ~engine.raised
    /\ engine.pc # "done" => engine.notifier_calls = 0
    /\ AnalysisReturned =>
          engine.notifier_calls =
              IF ~engine.result.success /\ engine.admin_notifier # "none"
              THEN 1 ELSE 0
    /\ (engine.pc = "done" /\ engine.retry_count = MaxRetries) =>
          /\ engine.result.valid
          /\ ~engine.result.success
          /\ engine.result.retry_count = MaxRetries
          /\ engine.result.recommendations = 0

\* C24 witness: all attempts failed, the notifier was called and raised, the
\* failure result came back all the same
C24_Witness ==
    /\ AnalysisReturned
    /\ ~engine.result.success
    /\ engine.admin_notifier = "raises"
    /\ engine.notifier_calls = 1
    /\ engine.result.retry_count = MaxRetries

\* C25: when the market goes from open to closed while a cycle of the region
\* is executing (open at the cycle decision, not open at the query after the
\* cycle), the loop has emitted the "Allowing in-progress cycle to complete"
\* event by the end of that tick.
C25_AllowingEventOnCloseDuringCycle ==
    [][ \A t \in Tids :
          (LoopApply(t) /\ ~threads[t].result.raised
             /\ market[threads[t].region] # "open")
          => threads'[t].allowing_logged ]_vars

\* the "Allowing in-progress cycle to complete" event is never emitted: at
\* line 234 cycle_in_progress is False every time
AllowingNeverLogged ==
    \A t \in Tids : ~threads[t].allowing_logged

\* loop t is at the head of a tick with its region paused, not signalled to
\* stop
PausedTick(t) ==
    /\ threads[t].pc = "head"
    /\ ~Signalled(t)
    /\ Get(is_paused, threads[t].region, FALSE)

\* C26: on a tick where the region is paused and now < pause_until the loop
\* makes no market query and starts no cycle (it goes back to sleep at the
\* head of the loop) and leaves every status field of the region unchanged.
C26_PausedTickDoesNothing ==
    [][ \A t \in Tids :
          (LoopHead(t) /\ PausedTick(t)
             /\ Get(pause_until, threads[t].region, None) # None
             /\ now < Get(pause_until, threads[t].region, None))
          => /\ threads'[t] = threads[t]
             /\ StatusEntries(threads[t].region)' = StatusEntries(threads[t].region)
             /\ MonitoringStatus(threads[t].region)'
                   = MonitoringStatus(threads[t].region) ]_vars

\* C26 witness: a paused loop waits at the head of its loop before the pause
\* has run out, the market of its region being open
C26_Witness ==
    \E t \in Tids :
        /\ PausedTick(t)
        /\ now < Get(pause_until, threads[t].region, None)
        /\ market[threads[t].region] = "open"
        /\ Get(next_cycle_time, threads[t].region, None) # None

\* C27: on the tick with now >= pause_until the loop clears is_paused,
\* pause_until and pause_reason, resets consecutive_failures to 0 and goes on
\* to the market check of the same tick; a paused region whose loop keeps
\* running is resumed in the end (for every pause that ends within the time
\* explored).
C27_PauseExpiryResumes ==
    /\ [][ \A t \in Tids :
             (LoopHead(t) /\ PausedTick(t)
                /\ Get(pause_until, threads[t].region, None) # None
                /\ now >= Get(pause_until, threads[t].region, None))
             => /\ is_paused'[threads[t].region] = FALSE
                /\ pause_until'[threads[t].region] = None
                /\ pause_reason'[threads[t].region] = NoReason
                /\ consecutive_failures'[threads[t].region] = 0
                /\ threads'[t].pc = "market_check" ]_vars
    /\ \A r \in Regions :
          (Get(is_paused, r, FALSE) /\ Get(pause_until, r, None) <= MaxTime)
              ~> ~Get(is_paused, r, FALSE)

\* C27 witness: a loop has resumed after its pause and is at the market check
\* of the same tick
C27_Witness ==
    \E t \in Tids :
        /\ threads[t].pc = "market_check"
        /\ ~Get(is_paused, threads[t].region, TRUE)
        /\ Get(pause_until, threads[t].region, 0) = None
        /\ Get(pause_reason, threads[t].region, <<"x">>) = NoReason
        /\ Get(consecutive_failures, threads[t].region, 1) = 0
        /\ Get(total_cycles_today, threads[t].region, 0) = 0
        /\ now >= PauseMinutes

C29_RescheduleAfterCycle ==
    [][ \A t \in Tids :
          (LoopApply(t) /\ ~threads[t].result.raised)
          => LET r == threads[t].region
             IN  /\ r \in DOMAIN next_cycle_time'
                 /\ IF market[r] = "open"
                    THEN /\ next_cycle_time'[r] =
                                now + config.monitoring_interval_minutes
                         /\ threads'[t].was_market_open = threads[t].was_market_open
                    ELSE /\ next_cycle_time'[r] = None
                         /\ ~threads'[t].was_market_open ]_vars

\* C29 witness: a failed cycle has been applied while the market query
\* raises; nothing is scheduled and the market is remembered as closed
C29_Witness ==
    \E t \in Tids :
        /\ threads[t].pc = "head"
        /\ market[threads[t].region] = "error"
        /\ Get(next_cycle_time, threads[t].region, 0) = None
        /\ ~threads[t].was_market_open
        /\ Get(consecutive_failures, threads[t].region, 0) = 1
        /\ Get(last_cycle_time, threads[t].region, None) = None

\* C30: full-interval cadence.  While the market stays open (every market
\* query of the loop since the end of its previous cycle answers open), a
\* cycle starts no sooner than one configured interval after the end of that
\* previous cycle, whether it succeeded or failed.
C30_FullIntervalCadence ==
    [][ \A t \in Tids :
          (LoopShouldExecute(t) /\ threads'[t].pc = "cycle"
             /\ threads[t].open_since # None)
          => now >= threads[t].open_since + config.monitoring_interval_minutes
       ]_vars

\* C31: a successful cycle sets consecutive_failures to 0, last_cycle_time to
\* the end_time of the cycle and adds exactly 1 to total_cycles_today; a
\* failed cycle leaves last_cycle_time and total_cycles_today as they were.
C31_SuccessAndFailureEffects ==
    [][ \A t \in Tids :
          LoopApply(t) =>
            LET r == threads[t].region
                result == threads[t].result
            IN  IF result.success
                THEN /\ r \in DOMAIN consecutive_failures'
                     /\ consecutive_failures'[r] = 0
                     /\ r \in DOMAIN last_cycle_time'
                     /\ last_cycle_time'[r] = result.end_time
                     /\ r \in DOMAIN total_cycles_today'
                     /\ total_cycles_today'[r]
                            = DefaultGet(total_cycles_today, r) + 1
                ELSE /\ last_cycle_time' = last_cycle_time
                     /\ total_cycles_today' = total_cycles_today ]_vars

\* C31 witness: a failed cycle has been applied after a successful one: the
\* count of cycles and the time of the last cycle are those of the success
C31_Witness ==
    \E t \in Tids :
        /\ threads[t].pc = "head"
        /\ Get(total_cycles_today, threads[t].region, 0) = 1
        /\ Get(last_cycle_time, threads[t].region, None) = 0
        /\ Get(consecutive_failures, threads[t].region, 0) = 1
        /\ now > 0

\* C32: a market query that raised in a tick counts as closed and is no cycle
\* failure: no cycle is executed in that tick, consecutive_failures stays as
\* it is and the breaker is not tripped.
C32_StatusCheckFailureNoCycle ==
    [][ \A t \in Tids :
          /\ (LoopMarketCheck(t) /\ market[threads[t].region] = "error")
                => /\ ~threads'[t].was_market_open
                   /\ consecutive_failures' = consecutive_failures
                   /\ is_paused' = is_paused
          /\ (LoopShouldExecute(t)
                /\ (threads[t].check_failed_logged
                      \/ market[threads[t].region] = "error"))
                => /\ threads'[t].pc # "cycle"
                   /\ consecutive_failures' = consecutive_failures
                   /\ is_paused' = is_paused ]_vars

\* the part of C32 that holds: a market query that raises is taken as a
\* closed answer by the step that made it and is no cycle failure; it leaves
\* every status map alone, and a region gets paused only by a failed cycle
RaisingQueryLeavesCounters ==
    [][ /\ \A t \in Tids :
             /\ (LoopMarketCheck(t) /\ market[threads[t].region] = "error")
                   => /\ ~threads'[t].was_market_open
                      /\ ~threads'[t].opened_logged
                      /\ statusMaps' = statusMaps
             /\ (LoopShouldExecute(t) /\ market[threads[t].region] = "error")
                   => /\ threads'[t].pc = "head"
                      /\ statusMaps' = statusMaps
        /\ \A r \in Regions :
             (Get(is_paused', r, FALSE) /\ ~Get(is_paused, r, FALSE))
                => \E t \in Tids : /\ LoopApply(t)
                                   /\ threads[t].region = r
                                   /\ ~threads[t].result.success ]_vars

\* C33: a started loop ends only after its own stop signal or the global stop
\* signal has been set; no failure of the detector, the analysis, the trade
\* executor or the configuration read ends it.
C33_LoopEndsOnlyOnStopSignal ==
    [][ \A t \in Tids :
          (IsAlive(t) /\ threads'[t].pc = "dead")
          => (global_stop \/ t \in flag_set) ]_vars

\* C34: the holiday source is read at most once per region over the life of
\* the detector: after the first holiday check of a region, also one whose
\* load failed or gave no dates, the cached calendar is used.
C34_HolidaySourceReadOnce ==
    \A r \in MarketHoursRegions :
        /\ holiday_reads[r] <= 1
        /\ (holiday_reads[r] = 1) = (CacheKey(r) \in DOMAIN holidays_cache)

\* C34 witness: the source of china raised on its one read, the empty list
\* is cached, and the detector has answered for china on a later day
C34_Witness ==
    /\ holiday_reads["china"] = 1
    /\ holiday_source["china"].raises
    /\ "china" \in DOMAIN holidays_cache
    /\ holidays_cache["china"] = <<>>
    /\ holiday_reads["hong_kong"] = 1
    /\ answer.valid
    /\ answer.region = "china"
    /\ answer.t >= 2 * MinutesPerDay

\* C35: in every state, and in every MonitoringStatus that
\* get_monitoring_status returns while the loop of the region runs, is_paused
\* implies that pause_until is set; and a pause_until that is written lies
\* after the current time.
C35_PausedImpliesPauseUntil ==
    [][ /\ \A r \in Regions :
              Get(is_paused', r, FALSE) => Get(pause_until', r, None) # None
        /\ returned'.kind = "status" =>
              (returned'.status.is_paused
                  => returned'.status.pause_until # None)
        /\ \A r \in Regions :
              ( /\ Get(pause_until', r, None) # None
                /\ Get(pause_until', r, None) # Get(pause_until, r, None) )
              => Get(pause_until', r, None) > now' ]_vars

\* the second half of C35 on its own: a pause_until that is written lies
\* after the current time
PauseUntilInFuture ==
    [][ \A r \in Regions :
          ( /\ Get(pause_until', r, None) # None
            /\ Get(pause_until', r, None) # Get(pause_until, r, None) )
          => Get(pause_until', r, None) > now' ]_vars

\* a stop_monitoring() call issued after the start that spawned loop t has
\* signalled it: the Event made for t by that start is set, or the call has
\* already cleared the map in which t looks its Event up
StoppedAfterStart(t) ==
    IF threads[t].pc = "spawned"
    THEN \/ threads[t].region \notin DOMAIN stop_flags
         \/ stop_flags[threads[t].region] \in flag_set
    ELSE threads[t].stop_flag \in flag_set

\* C36: a loop spawned by start_monitoring() keeps ticking until a
\* stop_monitoring() call issued after that start; also after a stop
\* followed by a start every started loop stays alive.
C36_LoopLivesUntilLaterStop ==
    [][ \A t \in Tids :
          (IsAlive(t) /\ threads'[t].pc = "dead") => StoppedAfterStart(t) ]_vars

\* C37: in every state reached through start_monitoring(), stop_monitoring()
\* and loop steps, 0 <= consecutive_failures[r] <= 3 for every region r, and
\* consecutive_failures[r] = 3 implies is_paused[r].
C37_FailureCountBounded ==
    \A r \in Regions :
        /\ 0 <= DefaultGet(consecutive_failures, r)
        /\ DefaultGet(consecutive_failures, r) <= FailureThreshold
        /\ DefaultGet(consecutive_failures, r) = FailureThreshold
              => Get(is_paused, r, FALSE)

\* a loop of region r records a successful cycle in this step
SuccessRecorded(r) ==
    \E t \in Tids : threads[t].region = r /\ RecordsSuccess(t)

\* C38: total_cycles_today[r] is the number of successful cycles of region r
\* since the monitor was made: it starts at 0, goes up by one with each
\* successful cycle and is changed by nothing else (no market close, pause,
\* stop_monitoring() or start_monitoring() resets it).
C38_TotalCyclesCountsSuccesses ==
    [][ \A r \in Regions :
          DefaultGet(total_cycles_today', r) =
              DefaultGet(total_cycles_today, r)
                + (IF SuccessRecorded(r) THEN 1 ELSE 0) ]_vars

\* C38 witness: usa has one successful cycle on its count, the monitor was
\* stopped and started again, the market has closed, and the status says 1
C38_Witness ==
    /\ nthreads = 2
    /\ global_stop
    /\ market["usa"] = "closed"
    /\ returned.kind = "status"
    /\ returned.status.region = "usa"
    /\ returned.status.is_active
    /\ returned.status.total_cycles_today = 1

\* C39: once the stop signal of a region or the global stop signal is set,
\* the loop of the region starts at most one further cycle, the one of the
\* iteration whose while test it had already passed; at its next while test
\* it exits.  When every call it makes returns, the loop does exit.
C39_AtMostOneCycleAfterSignal ==
    /\ [][ \A t \in Tids :
             /\ threads'[t].cycles_since_signal <= 1
             /\ (Signalled(t) /\ Leaves(t, "head")) => threads'[t].pc = "dead"
             /\ (IsAlive(t) /\ threads[t].pc # "spawned" /\ Signalled(t)
                   /\ threads'[t].pc # "dead") => Signalled(t)' ]_vars
    /\ \A t \in Tids : (IsAlive(t) /\ Signalled(t)) ~> ~IsAlive(t)

\* C39 witness: a loop that was signalled after its while test has run the
\* one cycle of that iteration and stands at the while test again
C39_Witness ==
    \E t \in Tids :
        /\ threads[t].pc = "head"
        /\ Signalled(t)
        /\ threads[t].cycles_since_signal = 1
        /\ Get(last_cycle_time, threads[t].region, None) # None

====
